---- MODULE Spec2Model ----
(***************************************************************************)
(* CircuitFlow board editor (src/App.tsx, second revision, lines 660-1442) *)
(* as a state machine: the board model (components, traces), the selection *)
(* set, the active drag descriptor and the pointer handlers that mutate    *)
(* them.                                                                   *)
(*                                                                         *)
(* Lengths are integers in tenths of a world unit, so the grid pitch 25.4  *)
(* is 254, the junction half-size 12.7 is 127 and a hit radius of 12 world *)
(* units is 120.  Identifiers are the '_'-separated pieces of the source's *)
(* id strings: `comp_junc_${t}` is <<"comp","junc",t>>, the pin id         *)
(* `${comp.id}_${p.id}` is the component id followed by the template id,   *)
(* and s.split('_')[0] is Head(s).  Date.now() has 13 digits in every run  *)
(* of the program, so a string prefix test between ids is the same test on *)
(* the pieces.                                                             *)
(***************************************************************************)
EXTENDS Integers, Sequences, FiniteSets, TLC

VARIABLES
    components,          \* PCBComponent[]  (useState, App.tsx:696)
    traces,              \* Trace[]         (useState, App.tsx:697)
    selectedIds,         \* Set<string>     (useState, App.tsx:698)
    tool,                \* 'select'|'pan'  (useState, App.tsx:705)
    pendingFootprintId,  \* <<>> or <<id>>  (useState, App.tsx:706)
    viewport,            \* {x, y, scale}   (useState, App.tsx:709)
    dragRef,             \* <<>> or <<descriptor>>  (useRef, App.tsx:711)
    routingPreview,      \* <<>> or <<{from,to}>>   (useState, App.tsx:722)
    marquee,             \* <<>> or <<{start,end}>> (useState, App.tsx:723)
    invalidTraceIds,     \* Set<string>     (useState, App.tsx:699)
    violationMarkers,    \* Vector2[]       (useState, App.tsx:700)
    isDrcRunning,        \* boolean         (useState, App.tsx:701)
    lastCheckResult,     \* 'none'|'pass'|'fail' (useState, App.tsx:702)
    drcTimers,           \* pending setTimeout(runDRC, 800) timers (App.tsx:877)
    flagTimers,          \* pending setTimeout(() => setIsDrcRunning(false), 200)
    now,                 \* the value Date.now() returns to the next handler
    pointer,             \* the pointer: <<>> when up, <<client position>> when down
    burst,               \* history: runs of the effect since one of its timers expired
    gesture,             \* history: the press on a trace that began the gesture in progress
    lastSplit,           \* history: the drag-split whose junction is on the board
    last                 \* history: the handler or check that just changed the board, or
                         \* the press that just began a gesture, with its button and its
                         \* Shift key, or the move of the pointer with no button held
                         \* (<<>> after any other step)

vars == <<components, traces, selectedIds, tool, pendingFootprintId, viewport,
          dragRef, routingPreview, marquee, invalidTraceIds, violationMarkers,
          isDrcRunning, lastCheckResult, drcTimers, flagTimers, now, pointer,
          burst, gesture, lastSplit, last>>

---------------------------------------------------------------------------
(* Bounds of the model                                                     *)

MaxNow == 5          \* the clock at the end of an editing session
MaxNowJunction == 6  \* the clock at the end of a session on one resistor
MaxNowTools == 4     \* the clock at the end of a session with every tool
MaxComps == 2        \* components on the board at once
MaxTraces == 2       \* traces on the board at once
MaxPan == 300        \* viewport.x reached by panning (to the right only)
MaxNowLayout == 4    \* the clock of a session of placing and rotating
MaxSite == 508       \* how far from the origin a component rests there
MaxBurst == 2        \* runs of the effect counted between two expiries
MaxFlagTimers == 2   \* pending resets of the running flag
MaxCrowd == 5        \* traces laid on top of each other on a checked board
MaxOffset == 300     \* |x|, |y| of an explicit control-handle offset

---------------------------------------------------------------------------
(* Program constants                                                       *)

SNAP_SIZE == 254         \* 25.4
JunctionHalf == 127      \* 12.7 in createJunctionAt
HandleRadius == 120      \* checkCollision(world, ctrl, 12)
PinDownRadius == 120     \* checkCollision(p.globalPos, world, 12) in onPointerDown
PinUpRadius == 150       \* checkCollision(p.globalPos, world, 15) in onPointerUp
TraceDownRadius == 150   \* checkCollision(world, pt, 15) in onPointerDown
TraceUpRadius == 250     \* checkCollision(world, pt, 25) in onPointerUp
SplitThreshold == 80     \* dist > 8
MovedThreshold == 10     \* Math.abs(...) > 1
RouteWidth == 8          \* width: 8 of a routed trace
HitSamples == 20         \* for(let i=0; i<=20; i++) getPointOnBezier(i/20, ...)
DrcSamples == 14         \* getPointOnBezier(i / 14, ...), i = 0..14
MarkerCap == 30          \* markers.length < 30
InitialScale == 50       \* viewport scale 0.5, in percent
RouteColor == "#10b981"

Vec(x, y) == [x |-> x, y |-> y]
VecAdd(a, b) == Vec(a.x + b.x, a.y + b.y)
VecSub(a, b) == Vec(a.x - b.x, a.y - b.y)
Abs(n) == IF n < 0 THEN -n ELSE n
Max(a, b) == IF a >= b THEN a ELSE b
Min(a, b) == IF a <= b THEN a ELSE b

\* Math.round(v / SNAP_SIZE) * SNAP_SIZE ; Math.round rounds halves up
snap(v) == ((2 * v + SNAP_SIZE) \div (2 * SNAP_SIZE)) * SNAP_SIZE
snapVec(w) == Vec(snap(w.x), snap(w.y))

\* The footprint library (constants.ts): the two-pin resistor, the single
\* pad 'pin' and the junction 'PIN'.
FOOTPRINTS ==
    << [id |-> "resistor", width |-> 1524, height |-> 508,
        pins |-> << [id |-> "1", localPos |-> Vec(254, 254)],
                    [id |-> "2", localPos |-> Vec(1270, 254)] >>],
       [id |-> "pin", width |-> 254, height |-> 254,
        pins |-> << [id |-> "p1", localPos |-> Vec(127, 127)] >>],
       [id |-> "PIN", width |-> 254, height |-> 254,
        pins |-> << [id |-> "p1", localPos |-> Vec(127, 127)] >>] >>

\* Array.prototype.find: <<>> (undefined) or <<first element satisfying P>>
Find(seq, P(_)) ==
    LET idx == {i \in 1..Len(seq) : P(seq[i])}
    IN  IF idx = {} THEN <<>>
        ELSE <<seq[CHOOSE i \in idx : \A j \in idx : i <= j]>>

\* Array.prototype.filter
Filter(seq, P(_)) == SelectSeq(seq, P)

\* [...seq].reverse()
Reverse(seq) == [i \in 1..Len(seq) |-> seq[Len(seq) + 1 - i]]

\* Array.prototype.flatMap over sequences of sequences
RECURSIVE Flatten(_)
Flatten(seqs) ==
    IF seqs = <<>> THEN <<>> ELSE Head(seqs) \o Flatten(Tail(seqs))

FindFootprint(fid) == Find(FOOTPRINTS, LAMBDA f : f.id = fid)

\* cos and sin of a rotation that is a multiple of 90 degrees
Cos(r) == CASE r = 0 -> 1 [] r = 90 -> 0 [] r = 180 -> -1 [] r = 270 -> 0
Sin(r) == CASE r = 0 -> 0 [] r = 90 -> 1 [] r = 180 -> 0 [] r = 270 -> -1

\* utils/pcbUtils getPinGlobalPos: rotate localPos about the footprint
\* centre by comp.rotation, then translate by comp.position
getPinGlobalPos(comp, foot, pin) ==
    LET cx == foot.width \div 2
        cy == foot.height \div 2
        lx == pin.localPos.x - cx
        ly == pin.localPos.y - cy
        rx == lx * Cos(comp.rotation) - ly * Sin(comp.rotation)
        ry == lx * Sin(comp.rotation) + ly * Cos(comp.rotation)
    IN  Vec(comp.position.x + rx + cx, comp.position.y + ry + cy)

\* utils/pcbUtils checkCollision: Euclidean distance < threshold
checkCollision(a, b, threshold) ==
    (a.x - b.x) * (a.x - b.x) + (a.y - b.y) * (a.y - b.y) < threshold * threshold

PinId(compId, pinTemplateId) == compId \o <<pinTemplateId>>

\* allPins (useMemo): the pins of every component whose footprint is known
PinsOf(comp) ==
    LET f == FindFootprint(comp.footprintId)
    IN  IF f = <<>> THEN <<>>
        ELSE [i \in 1..Len(f[1].pins) |->
                [id |-> PinId(comp.id, f[1].pins[i].id),
                 componentId |-> comp.id,
                 globalPos |-> getPinGlobalPos(comp, f[1], f[1].pins[i])]]

allPinsOf(comps) == Flatten([i \in 1..Len(comps) |-> PinsOf(comps[i])])
allPins == allPinsOf(components)

FindPin(pid) == Find(allPins, LAMBDA p : p.id = pid)

---------------------------------------------------------------------------
(* Curve geometry (utils/pcbUtils)                                         *)

\* An optional value is <<>> (undefined) or <<v>>.
NoOffset == <<>>

\* The default control offsets: a pure function of p1 and p2, a quarter of
\* the span along the dominant axis.
defaultC1(p1, p2) ==
    IF Abs(p2.x - p1.x) >= Abs(p2.y - p1.y)
    THEN Vec((p2.x - p1.x) \div 4, 0)
    ELSE Vec(0, (p2.y - p1.y) \div 4)

defaultC2(p1, p2) ==
    IF Abs(p2.x - p1.x) >= Abs(p2.y - p1.y)
    THEN Vec(-((p2.x - p1.x) \div 4), 0)
    ELSE Vec(0, -((p2.y - p1.y) \div 4))

\* getBezierControlPoints(p1, p2, trace): p1 + (c1Offset ?? default1),
\* p2 + (c2Offset ?? default2)
getBezierControlPoints(p1, p2, trace) ==
    [c1 |-> VecAdd(p1, IF trace.c1Offset = NoOffset THEN defaultC1(p1, p2)
                       ELSE trace.c1Offset[1]),
     c2 |-> VecAdd(p2, IF trace.c2Offset = NoOffset THEN defaultC2(p1, p2)
                       ELSE trace.c2Offset[1])]

\* The Bernstein weights of t = i / n, times n^3
BernsteinWeights(n) ==
    [i \in 0..n |-> [b0 |-> (n - i) * (n - i) * (n - i),
                     b1 |-> 3 * (n - i) * (n - i) * i,
                     b2 |-> 3 * (n - i) * i * i,
                     b3 |-> i * i * i]]

HitWeights == BernsteinWeights(20)

\* The cubic through p1, c1, c2, p2 at the parameter whose weights are w
CubicAt(w, n, p1, c1, c2, p2) ==
    Vec((w.b0 * p1.x + w.b1 * c1.x + w.b2 * c2.x + w.b3 * p2.x) \div (n * n * n),
        (w.b0 * p1.y + w.b1 * c1.y + w.b2 * c2.y + w.b3 * p2.y) \div (n * n * n))

\* getPointOnBezier(i / 20, p1, p2, trace): the cubic Bernstein form
getPointOnBezier(i, p1, p2, trace) ==
    LET ctrl == getBezierControlPoints(p1, p2, trace)
    IN  CubicAt(HitWeights[i], HitSamples, p1, ctrl.c1, ctrl.c2, p2)

\* The points getPointOnBezier(i / 20, ...) gives for i = 0..20
HitPoints(p1, p2, trace) ==
    LET ctrl == getBezierControlPoints(p1, p2, trace)
    IN  [i \in 0..HitSamples |->
            CubicAt(HitWeights[i], HitSamples, p1, ctrl.c1, ctrl.c2, p2)]

---------------------------------------------------------------------------
(* Helpers of the component                                                *)

\* getScreenToWorld: the inverse of translate(viewport.x, viewport.y)
\* scale(viewport.scale); client lengths are in units of 1/20 pixel and the
\* board's bounding rectangle starts at the client origin.
getScreenToWorld(client) ==
    Vec(((client.x - viewport.x) * 50) \div viewport.scale,
        ((client.y - viewport.y) * 50) \div viewport.scale)

\* The client position at which the world point w is drawn.
ClientOf(w) ==
    Vec((w.x * viewport.scale) \div 50 + viewport.x,
        (w.y * viewport.scale) \div 50 + viewport.y)

getCompPosForPinTargetCorner(footprintId, targetPinWorld, rotation) == targetPinWorld

\* getCompPosForPinTarget(footprintId, targetPinWorld, rotation)
getCompPosForPinTarget(footprintId, targetPinWorld, rotation) ==
    LET foot == FindFootprint(footprintId)
    IN  IF foot = <<>> THEN targetPinWorld
        ELSE LET firstPin == foot[1].pins[1]
                 cx == foot[1].width \div 2
                 cy == foot[1].height \div 2
                 lx == firstPin.localPos.x - cx
                 ly == firstPin.localPos.y - cy
                 rx == lx * Cos(rotation) - ly * Sin(rotation)
                 ry == lx * Sin(rotation) + ly * Cos(rotation)
             IN  Vec(targetPinWorld.x - (rx + cx), targetPinWorld.y - (ry + cy))

\* `comp_junc_${Date.now()}`, `comp_${Date.now()}`, `trace_${Date.now()}`, ...
Stamp(t) == ToString(t)
JunctionIdAt(t) == <<"comp", "junc", Stamp(t)>>
CompIdAt(t) == <<"comp", Stamp(t)>>
TraceIdAt(t) == <<"trace", Stamp(t)>>

\* SegIdAt without the suffix that tells the two halves of a trace apart
SegIdAtNoSuffix(t, k) == <<"trace", Stamp(t)>>

SegIdAt(t, k) == <<"trace", Stamp(t), k>>
MergedIdAt(t) == <<"trace", "merged", Stamp(t)>>

\* String.prototype.startsWith on ids
StartsWith(s, prefix) ==
    /\ Len(s) >= Len(prefix)
    /\ SubSeq(s, 1, Len(prefix)) = prefix

\* createJunctionAt returning the id of a pin the 'PIN' footprint lacks
createJunctionAtPinOne(world, t) ==
    [comps |-> Append(components,
                      [id |-> <<"comp", "junc", ToString(t)>>, footprintId |-> "PIN",
                       position |-> Vec(snap(world.x) - JunctionHalf,
                                        snap(world.y) - JunctionHalf),
                       rotation |-> 0]),
     pinId |-> <<"comp", "junc", ToString(t), "1">>]

\* createJunctionAt(world): the junction appended to the component list and
\* the pin id returned
JunctionAt(world, t) ==
    [id |-> JunctionIdAt(t), footprintId |-> "PIN",
     position |-> Vec(snap(world.x) - JunctionHalf, snap(world.y) - JunctionHalf),
     rotation |-> 0]

createJunctionAt(world, t) ==
    [comps |-> Append(components, JunctionAt(world, t)),
     pinId |-> PinId(JunctionIdAt(t), "p1")]

NewTrace(id, from, to, width, color) ==
    [id |-> id, fromPinId |-> from, toPinId |-> to, width |-> width,
     color |-> color, c1Offset |-> NoOffset, c2Offset |-> NoOffset]

\* The sampled hit test of a trace used by onPointerDown and onPointerUp
TraceHit(t, world, radius) ==
    LET p1 == FindPin(t.fromPinId)
        p2 == FindPin(t.toPinId)
    IN  /\ p1 # <<>>
        /\ p2 # <<>>
        /\ LET pts == HitPoints(p1[1].globalPos, p2[1].globalPos, t)
           IN  \E i \in 0..HitSamples : checkCollision(world, pts[i], radius)

\* The active drag descriptor (dragRef.current); absent fields are <<>>, 0
\* or FALSE.
Drag(type, id, handleIdx, startWorld, offset, hasMoved, initialComp) ==
    [type |-> type, id |-> id, handleIdx |-> handleIdx, startWorld |-> startWorld,
     offset |-> offset, hasMoved |-> hasMoved, initialComp |-> initialComp]

---------------------------------------------------------------------------
(* onPointerDown                                                           *)

NoDrag == <<>>
NoId == <<>>

\* The result of a handler: the state it leaves, whether it read the clock,
\* and the trace the press was resolved to (<<>> when to something else).
Result(comps, trcs, sel, pending, drag, usedNow) ==
    [components |-> comps, traces |-> trcs, selectedIds |-> sel,
     pendingFootprintId |-> pending, dragRef |-> drag, usedNow |-> usedNow,
     onTrace |-> <<>>]

PlacePendingKeepsPending(world) ==
    LET foot == FindFootprint(pendingFootprintId[1])
    IN  IF foot = <<>>
        THEN Result(components, traces, selectedIds, pendingFootprintId, dragRef, FALSE)
        ELSE LET pos == getCompPosForPinTarget(pendingFootprintId[1], snapVec(world), 0)
                 id == CompIdAt(now)
                 newComp == [id |-> id, footprintId |-> pendingFootprintId[1],
                             position |-> pos, rotation |-> 0]
             IN  Result(Append(components, newComp), traces, {id}, pendingFootprintId,
                        <<Drag("move", id, 0, world, <<Vec(0, 0)>>, TRUE,
                               <<[id |-> id, footprintId |-> newComp.footprintId,
                                  rotation |-> 0, position |-> <<pos>>]>>)>>,
                        TRUE)

\* lines 922-944: place the pending footprint and start moving it
PlacePending(world) ==
    LET foot == FindFootprint(pendingFootprintId[1])
    IN  IF foot = <<>>
        THEN Result(components, traces, selectedIds, pendingFootprintId, dragRef, FALSE)
        ELSE LET pos == getCompPosForPinTarget(pendingFootprintId[1], snapVec(world), 0)
                 id == CompIdAt(now)
                 newComp == [id |-> id, footprintId |-> pendingFootprintId[1],
                             position |-> pos, rotation |-> 0]
             IN  Result(Append(components, newComp), traces, {id}, <<>>,
                        <<Drag("move", id, 0, world, <<Vec(0, 0)>>, TRUE,
                               <<[id |-> id, footprintId |-> newComp.footprintId,
                                  rotation |-> 0, position |-> <<pos>>]>>)>>,
                        TRUE)

\* lines 951-969: the control handles of the selected traces under the
\* pointer, as (trace id, handle index, grab offset); handle 1 is tested
\* before handle 2 of the same trace
HandleHits(world) ==
    { h \in UNION { LET t == traces[i]
                        p1 == FindPin(t.fromPinId)
                        p2 == FindPin(t.toPinId)
                    IN  IF t.id \notin selectedIds \/ p1 = <<>> \/ p2 = <<>> THEN {}
                        ELSE LET ctrl == getBezierControlPoints(p1[1].globalPos, p2[1].globalPos, t)
                             IN  IF checkCollision(world, ctrl.c1, HandleRadius)
                                 THEN {[id |-> t.id, handleIdx |-> 1, offset |-> VecSub(world, ctrl.c1)]}
                                 ELSE IF checkCollision(world, ctrl.c2, HandleRadius)
                                 THEN {[id |-> t.id, handleIdx |-> 2, offset |-> VecSub(world, ctrl.c2)]}
                                 ELSE {}
                  : i \in 1..Len(traces) } : TRUE }

\* line 971
HitPinDown(world) ==
    Find(allPins, LAMBDA p : checkCollision(p.globalPos, world, PinDownRadius))

\* lines 988-997
HitTraceDown(world) ==
    Find(Reverse(traces), LAMBDA t : TraceHit(t, world, TraceDownRadius))

\* lines 1011-1015: the topmost component whose unrotated box holds the point
HitCompDown(world) ==
    Find(Reverse(components), LAMBDA c :
        LET foot == FindFootprint(c.footprintId)
        IN  /\ foot # <<>>
            /\ world.x >= c.position.x /\ world.x <= c.position.x + foot[1].width
            /\ world.y >= c.position.y /\ world.y <= c.position.y + foot[1].height)

Toggle(set, id) == IF id \in set THEN set \ {id} ELSE set \cup {id}

\* PinDown that starts a route from every pin, the pin of a junction included
PinDownAlwaysRoutes(hitPin, world) ==
    Result(components, traces, selectedIds, pendingFootprintId,
           <<Drag("route", hitPin.id, 0, world, <<>>, FALSE, <<>>)>>, FALSE)

\* lines 971-986: a pin under the pointer starts a move (junction) or a route
PinDown(hitPin, world) ==
    LET comp == Find(components, LAMBDA c : c.id = hitPin.componentId)
    IN  IF comp # <<>> /\ comp[1].footprintId = "PIN"
        THEN Result(components, traces, {comp[1].id}, pendingFootprintId,
                    <<Drag("move", comp[1].id, 0, world,
                           <<VecSub(world, hitPin.globalPos)>>, FALSE, <<>>)>>, FALSE)
        ELSE Result(components, traces, selectedIds, pendingFootprintId,
                    <<Drag("route", hitPin.id, 0, world, <<>>, FALSE, <<>>)>>, FALSE)

TraceDownKeepsSelection(hitTrace, world, shiftKey) ==
    [Result(components, traces,
            IF shiftKey THEN Toggle(selectedIds, hitTrace.id)
            ELSE selectedIds \cup {hitTrace.id},
            pendingFootprintId,
            IF shiftKey THEN dragRef
            ELSE <<Drag("potential_split", hitTrace.id, 0, world, <<>>, FALSE, <<>>)>>,
            FALSE)
     EXCEPT !.onTrace = <<hitTrace.id>>]

\* lines 999-1009
TraceDown(hitTrace, world, shiftKey) ==
    [(IF shiftKey
      THEN Result(components, traces, Toggle(selectedIds, hitTrace.id),
                  pendingFootprintId, dragRef, FALSE)
      ELSE Result(components, traces, {hitTrace.id}, pendingFootprintId,
                  <<Drag("potential_split", hitTrace.id, 0, world, <<>>, FALSE, <<>>)>>,
                  FALSE))
     EXCEPT !.onTrace = <<hitTrace.id>>]

\* lines 1017-1033
CompDown(hitComp, world, shiftKey) ==
    LET isSelected == hitComp.id \in selectedIds
        sel == IF ~shiftKey /\ ~isSelected THEN {hitComp.id}
               ELSE IF shiftKey THEN Toggle(selectedIds, hitComp.id)
               ELSE selectedIds
        p1 == Find(allPins, LAMBDA p : p.componentId = hitComp.id)
        offset == IF p1 # <<>> THEN VecSub(world, p1[1].globalPos) ELSE Vec(0, 0)
    IN  Result(components, traces, sel, pendingFootprintId,
               <<Drag("move", hitComp.id, 0, world, <<offset>>, FALSE, <<>>)>>, FALSE)

\* lines 1035-1036
MarqueeDown(world, shiftKey) ==
    Result(components, traces, IF shiftKey THEN selectedIds ELSE {},
           pendingFootprintId,
           <<Drag("marquee", NoId, 0, world, <<>>, FALSE, <<>>)>>, FALSE)

\* onPointerDown that looks for a component under the pointer before it
\* looks for a trace
onPointerDownBodyFirst(client, button, shiftKey, handle) ==
    LET world == getScreenToWorld(client)
    IN  IF pendingFootprintId # <<>> THEN PlacePending(world)
        ELSE IF tool = "pan" \/ button = 1
        THEN Result(components, traces, selectedIds, pendingFootprintId,
                    <<Drag("pan", NoId, 0, client, <<>>, FALSE, <<>>)>>, FALSE)
        ELSE IF handle # <<>>
        THEN Result(components, traces, selectedIds, pendingFootprintId,
                    <<Drag("handle", handle[1].id, handle[1].handleIdx, world,
                           <<handle[1].offset>>, FALSE, <<>>)>>, FALSE)
        ELSE IF HitPinDown(world) # <<>> /\ tool = "select"
        THEN PinDown(HitPinDown(world)[1], world)
        ELSE IF HitCompDown(world) # <<>>
        THEN CompDown(HitCompDown(world)[1], world, shiftKey)
        ELSE IF HitTraceDown(world) # <<>>
        THEN TraceDown(HitTraceDown(world)[1], world, shiftKey)
        ELSE MarqueeDown(world, shiftKey)

\* onPointerDown for a primary pointer; `handle` is <<>> or the handle the
\* loop over the selected ids finds first
onPointerDown(client, button, shiftKey, handle) ==
    LET world == getScreenToWorld(client)
    IN  IF pendingFootprintId # <<>> THEN PlacePending(world)
        ELSE IF tool = "pan" \/ button = 1
        THEN Result(components, traces, selectedIds, pendingFootprintId,
                    <<Drag("pan", NoId, 0, client, <<>>, FALSE, <<>>)>>, FALSE)
        ELSE IF handle # <<>>
        THEN Result(components, traces, selectedIds, pendingFootprintId,
                    <<Drag("handle", handle[1].id, handle[1].handleIdx, world,
                           <<handle[1].offset>>, FALSE, <<>>)>>, FALSE)
        ELSE IF HitPinDown(world) # <<>> /\ tool = "select"
        THEN PinDown(HitPinDown(world)[1], world)
        ELSE IF HitTraceDown(world) # <<>>
        THEN TraceDown(HitTraceDown(world)[1], world, shiftKey)
        ELSE IF HitCompDown(world) # <<>>
        THEN CompDown(HitCompDown(world)[1], world, shiftKey)
        ELSE MarqueeDown(world, shiftKey)

---------------------------------------------------------------------------
(* onPointerMove                                                           *)

MoveResult(comps, trcs, sel, drag, preview, marq, view, usedNow) ==
    [components |-> comps, traces |-> trcs, selectedIds |-> sel, dragRef |-> drag,
     routingPreview |-> preview, marquee |-> marq, viewport |-> view,
     usedNow |-> usedNow]

MoveNothing ==
    MoveResult(components, traces, selectedIds, dragRef, routingPreview, marquee,
               viewport, FALSE)

\* PanMove that zooms in by one percent as well
PanMoveZooms(drag, client) ==
    LET dx == client.x - drag.startWorld.x
        dy == client.y - drag.startWorld.y
    IN  MoveResult(components, traces, selectedIds,
                   <<[drag EXCEPT !.startWorld = client]>>, routingPreview, marquee,
                   [viewport EXCEPT !.x = viewport.x + dx, !.y = viewport.y + dy,
                                    !.scale = viewport.scale + 1],
                   FALSE)

\* lines 1053-1057
PanMove(drag, client) ==
    LET dx == client.x - drag.startWorld.x
        dy == client.y - drag.startWorld.y
    IN  MoveResult(components, traces, selectedIds,
                   <<[drag EXCEPT !.startWorld = client]>>, routingPreview, marquee,
                   [viewport EXCEPT !.x = viewport.x + dx, !.y = viewport.y + dy],
                   FALSE)

\* SplitTraces with the second segment led back to the source pin
SplitTracesToSource(hitTrace, junctionPinId, t) ==
    Filter(traces, LAMBDA x : x.id # hitTrace.id)
       \o <<NewTrace(SegIdAt(t, "1"), hitTrace.fromPinId, junctionPinId,
                     hitTrace.width, hitTrace.color),
            NewTrace(SegIdAt(t, "2"), junctionPinId, hitTrace.fromPinId,
                     hitTrace.width, hitTrace.color)>>

\* lines 1065-1067: the trace list after the split of hitTrace at junctionPinId
SplitTraces(hitTrace, junctionPinId, t) ==
    LET seg1 == NewTrace(SegIdAt(t, "1"), hitTrace.fromPinId, junctionPinId,
                         hitTrace.width, hitTrace.color)
        seg2 == NewTrace(SegIdAt(t, "2"), junctionPinId, hitTrace.toPinId,
                         hitTrace.width, hitTrace.color)
    IN  Filter(traces, LAMBDA x : x.id # hitTrace.id) \o <<seg1, seg2>>

\* line 1064: junctionPinId.split('_')[0]
SplitCompId(junctionPinId) == <<Head(junctionPinId)>>

\* lines 1058-1076
PotentialSplitMove(drag, world) ==
    LET dx == world.x - drag.startWorld.x
        dy == world.y - drag.startWorld.y
        hitTrace == Find(traces, LAMBDA t : t.id = drag.id)
    IN  IF dx * dx + dy * dy > SplitThreshold * SplitThreshold /\ hitTrace # <<>>
        THEN LET j == createJunctionAt(world, now)
                 newCompId == SplitCompId(j.pinId)
             IN  MoveResult(j.comps, SplitTraces(hitTrace[1], j.pinId, now),
                            {newCompId},
                            <<Drag("move", newCompId, 0, world, <<Vec(0, 0)>>, TRUE,
                                   <<[id |-> newCompId, footprintId |-> "PIN",
                                      rotation |-> 0, position |-> <<>>]>>)>>,
                            routingPreview, marquee, viewport, TRUE)
        ELSE MoveNothing

\* MoveMove that carries every selected component along
MoveMoveSelection(drag, world) ==
    LET found == Find(components, LAMBDA c : c.id = drag.id)
    IN  IF found = <<>> THEN MoveNothing
        ELSE LET off == IF drag.offset = <<>> THEN Vec(0, 0) ELSE drag.offset[1]
                 snappedPinWorld == Vec(snap(world.x - off.x), snap(world.y - off.y))
                 newPos == getCompPosForPinTarget(found[1].footprintId, snappedPinWorld,
                                                  found[1].rotation)
                 delta == VecSub(newPos, found[1].position)
             IN  MoveResult(
                    [i \in 1..Len(components) |->
                        IF components[i].id = drag.id \/ components[i].id \in selectedIds
                        THEN [components[i] EXCEPT
                                 !.position = VecAdd(components[i].position, delta)]
                        ELSE components[i]],
                    traces, selectedIds,
                    <<[drag EXCEPT !.hasMoved = TRUE]>>,
                    routingPreview, marquee, viewport, FALSE)

\* lines 1077-1085
MoveMove(drag, world) ==
    LET found == Find(components, LAMBDA c : c.id = drag.id)
        comp == IF found # <<>>
                THEN <<[footprintId |-> found[1].footprintId,
                        rotation |-> found[1].rotation,
                        position |-> <<found[1].position>>]>>
                ELSE drag.initialComp
    IN  IF comp = <<>> THEN MoveNothing
        ELSE LET off == IF drag.offset = <<>> THEN Vec(0, 0) ELSE drag.offset[1]
                 snappedPinWorld == Vec(snap(world.x - off.x), snap(world.y - off.y))
                 newPos == getCompPosForPinTarget(comp[1].footprintId, snappedPinWorld,
                                                  comp[1].rotation)
                 old == IF comp[1].position = <<>> THEN Vec(0, 0) ELSE comp[1].position[1]
                 moved == \/ Abs(newPos.x - old.x) > MovedThreshold
                          \/ Abs(newPos.y - old.y) > MovedThreshold
             IN  MoveResult(
                    [i \in 1..Len(components) |->
                        IF components[i].id = drag.id
                        THEN [components[i] EXCEPT !.position = newPos]
                        ELSE components[i]],
                    traces, selectedIds,
                    <<[drag EXCEPT !.hasMoved = drag.hasMoved \/ moved]>>,
                    routingPreview, marquee, viewport, FALSE)

\* line 1044
HitPinMove(world) ==
    Find(allPins, LAMBDA p : checkCollision(p.globalPos, world, PinUpRadius))

\* lines 1086-1091
RouteMove(drag, world) ==
    LET startPin == FindPin(drag.id)
        hitPin == HitPinMove(world)
    IN  IF startPin = <<>> THEN MoveNothing
        ELSE LET targetPinPos == IF hitPin # <<>> /\ hitPin[1].id # drag.id
                                 THEN hitPin[1].globalPos ELSE world
             IN  MoveResult(components, traces, selectedIds, dragRef,
                            <<[from |-> startPin[1].globalPos, to |-> targetPinPos]>>,
                            marquee, viewport, FALSE)

\* DragHandle that stores the position of the handle for its offset
DragHandleAbsolute(t, drag, targetPos) ==
    LET p1 == FindPin(t.fromPinId)
        p2 == FindPin(t.toPinId)
    IN  IF t.id # drag.id \/ p1 = <<>> \/ p2 = <<>> THEN t
        ELSE IF drag.handleIdx = 1
        THEN [t EXCEPT !.c1Offset = <<targetPos>>]
        ELSE [t EXCEPT !.c2Offset = <<targetPos>>]

\* lines 1095-1103: the dragged trace with its handle offset set
DragHandle(t, drag, targetPos) ==
    LET p1 == FindPin(t.fromPinId)
        p2 == FindPin(t.toPinId)
    IN  IF t.id # drag.id \/ p1 = <<>> \/ p2 = <<>> THEN t
        ELSE IF drag.handleIdx = 1
        THEN [t EXCEPT !.c1Offset = <<VecSub(targetPos, p1[1].globalPos)>>]
        ELSE [t EXCEPT !.c2Offset = <<VecSub(targetPos, p2[1].globalPos)>>]

\* lines 1105-1120: the smooth-joining rule at 'PIN' junctions
SmoothJoin(newTraces, drag) ==
    LET movedTrace == Find(newTraces, LAMBDA t : t.id = drag.id)
    IN  IF movedTrace = <<>> THEN newTraces
        ELSE LET pinId == IF drag.handleIdx = 1 THEN movedTrace[1].fromPinId
                          ELSE movedTrace[1].toPinId
                 pin == FindPin(pinId)
                 comp == IF pin = <<>> THEN <<>>
                         ELSE Find(components, LAMBDA c : c.id = pin[1].componentId)
                 adjIdx == {i \in 1..Len(newTraces) :
                              /\ newTraces[i].id # movedTrace[1].id
                              /\ \/ newTraces[i].fromPinId = pinId
                                 \/ newTraces[i].toPinId = pinId}
                 movingOffset == IF drag.handleIdx = 1 THEN movedTrace[1].c1Offset
                                 ELSE movedTrace[1].c2Offset
             IN  IF comp = <<>> \/ adjIdx = {} \/ movingOffset = NoOffset
                 THEN newTraces
                 ELSE IF comp[1].footprintId # "PIN" THEN newTraces
                 ELSE LET a == CHOOSE i \in adjIdx : \A k \in adjIdx : i <= k
                          opposite == <<Vec(-movingOffset[1].x, -movingOffset[1].y)>>
                      IN  [newTraces EXCEPT ![a] =
                              IF newTraces[a].fromPinId = pinId
                              THEN [newTraces[a] EXCEPT !.c1Offset = opposite]
                              ELSE [newTraces[a] EXCEPT !.c2Offset = opposite]]

\* lines 1092-1122
HandleMove(drag, world) ==
    LET off == IF drag.offset = <<>> THEN Vec(0, 0) ELSE drag.offset[1]
        targetPos == VecSub(world, off)
        newTraces == [i \in 1..Len(traces) |-> DragHandle(traces[i], drag, targetPos)]
    IN  MoveResult(components, SmoothJoin(newTraces, drag), selectedIds, dragRef,
                   routingPreview, marquee, viewport, FALSE)

InBoxByCorner(start, world) ==
    LET minX == Min(start.x, world.x)
        maxX == Max(start.x, world.x)
        minY == Min(start.y, world.y)
        maxY == Max(start.y, world.y)
    IN  { components[i].id : i \in
            { k \in 1..Len(components) :
                LET c == components[k]
                    f == FindFootprint(c.footprintId)
                IN  /\ f # <<>>
                    /\ c.position.x >= minX /\ c.position.x <= maxX
                    /\ c.position.y >= minY /\ c.position.y <= maxY } }

\* lines 1127-1130: the ids of the components whose box lies in the rectangle
InBox(start, world) ==
    LET minX == Min(start.x, world.x)
        maxX == Max(start.x, world.x)
        minY == Min(start.y, world.y)
        maxY == Max(start.y, world.y)
    IN  { components[i].id : i \in
            { k \in 1..Len(components) :
                LET c == components[k]
                    f == FindFootprint(c.footprintId)
                IN  /\ f # <<>>
                    /\ c.position.x >= minX /\ c.position.x + f[1].width <= maxX
                    /\ c.position.y >= minY /\ c.position.y + f[1].height <= maxY } }

\* lines 1123-1132
MarqueeMove(drag, world) ==
    MoveResult(components, traces, InBox(drag.startWorld, world), dragRef,
               routingPreview, <<[start |-> drag.startWorld, end |-> world]>>,
               viewport, FALSE)

\* onPointerMove with no footprint pending
onPointerMove(client) ==
    LET world == getScreenToWorld(client)
    IN  IF dragRef = NoDrag THEN MoveNothing
        ELSE LET drag == dragRef[1]
             IN  IF drag.type = "pan" THEN PanMove(drag, client)
                 ELSE IF drag.type = "potential_split" /\ drag.id # NoId
                 THEN PotentialSplitMove(drag, world)
                 ELSE IF drag.type = "move" /\ drag.id # NoId THEN MoveMove(drag, world)
                 ELSE IF drag.type = "route" /\ drag.id # NoId THEN RouteMove(drag, world)
                 ELSE IF drag.type = "handle" /\ drag.id # NoId /\ drag.handleIdx # 0
                 THEN HandleMove(drag, world)
                 ELSE IF drag.type = "marquee" THEN MarqueeMove(drag, world)
                 ELSE MoveNothing

---------------------------------------------------------------------------
(* onPointerUp                                                             *)

UpResult(comps, trcs, usedNow) ==
    [components |-> comps, traces |-> trcs, usedNow |-> usedNow]

\* line 1139
EndPin(drag, world) ==
    Find(allPins, LAMBDA p :
        checkCollision(p.globalPos, world, PinUpRadius) /\ p.id # drag.id)

\* HitTraceUp without the distance test
HitTraceUpAnywhere(world) ==
    Find(Reverse(traces), LAMBDA t :
        FindPin(t.fromPinId) # <<>> /\ FindPin(t.toPinId) # <<>>)

\* lines 1143-1151
HitTraceUp(world) ==
    Find(Reverse(traces), LAMBDA t : TraceHit(t, world, TraceUpRadius))

\* RouteUp with the ends of the direct trace exchanged
RouteUpReversed(drag, world) ==
    LET endPin == Find(allPins, LAMBDA p :
                     checkCollision(p.globalPos, world, PinUpRadius) /\ p.id # drag.id)
    IN  IF endPin # <<>> /\ drag.id # NoId
        THEN UpResult(components,
                      Append(traces, NewTrace(TraceIdAt(now), endPin[1].id, drag.id,
                                              RouteWidth, RouteColor)),
                      TRUE)
        ELSE IF HitTraceUp(world) # <<>>
        THEN LET j == createJunctionAt(world, now)
             IN  UpResult(j.comps,
                          Append(traces, NewTrace(TraceIdAt(now), drag.id, j.pinId,
                                                  RouteWidth, RouteColor)),
                          TRUE)
        ELSE UpResult(components, traces, FALSE)

\* lines 1137-1157: what a released route gesture adds to the board
RouteUp(drag, world) ==
    LET endPin == EndPin(drag, world)
    IN  IF endPin # <<>> /\ drag.id # NoId
        THEN UpResult(components,
                      Append(traces, NewTrace(TraceIdAt(now), drag.id, endPin[1].id,
                                              RouteWidth, RouteColor)),
                      TRUE)
        ELSE IF HitTraceUp(world) # <<>>
        THEN LET j == createJunctionAt(world, now)
             IN  UpResult(j.comps,
                          Append(traces, NewTrace(TraceIdAt(now), drag.id, j.pinId,
                                                  RouteWidth, RouteColor)),
                          TRUE)
        ELSE UpResult(components, traces, FALSE)

\* onPointerUp: the board it leaves (the drag, the preview and the marquee
\* are cleared by the action)
onPointerUp(client) ==
    IF dragRef # NoDrag /\ dragRef[1].type = "route" /\ routingPreview # <<>>
    THEN RouteUp(dragRef[1], getScreenToWorld(client))
    ELSE UpResult(components, traces, FALSE)

---------------------------------------------------------------------------
(* Toolbar and inspector                                                   *)

rotateSelectedBack ==
    [i \in 1..Len(components) |->
        IF components[i].id \in selectedIds
        THEN [components[i] EXCEPT !.rotation = (components[i].rotation + 270) % 360]
        ELSE components[i]]

\* line 1170
rotateSelected ==
    [i \in 1..Len(components) |->
        IF components[i].id \in selectedIds
        THEN [components[i] EXCEPT !.rotation = (components[i].rotation + 90) % 360]
        ELSE components[i]]

\* updateComponentProps(id, { rotation: angle }), lines 1214-1216
updateComponentProps(id, angle) ==
    [i \in 1..Len(components) |->
        IF components[i].id = id
        THEN [components[i] EXCEPT !.rotation = angle]
        ELSE components[i]]

\* lines 1179-1182
ConnectedTraces(junction) ==
    Filter(traces, LAMBDA t :
        StartsWith(t.fromPinId, junction.id) \/ StartsWith(t.toPinId, junction.id))

\* MergedTrace as wide as the narrower of the two traces
MergedTraceNarrow(junction, t1, t2, t) ==
    NewTrace(MergedIdAt(t),
             IF StartsWith(t1.fromPinId, junction.id) THEN t1.toPinId ELSE t1.fromPinId,
             IF StartsWith(t2.fromPinId, junction.id) THEN t2.toPinId ELSE t2.fromPinId,
             Min(t1.width, t2.width), t1.color)

\* MergedTrace with its ends exchanged
MergedTraceExchanged(junction, t1, t2, t) ==
    NewTrace(MergedIdAt(t),
             IF StartsWith(t2.fromPinId, junction.id) THEN t2.toPinId ELSE t2.fromPinId,
             IF StartsWith(t1.fromPinId, junction.id) THEN t1.toPinId ELSE t1.fromPinId,
             Max(t1.width, t2.width), t1.color)

\* lines 1186-1194
MergedTrace(junction, t1, t2, t) ==
    NewTrace(MergedIdAt(t),
             IF StartsWith(t1.fromPinId, junction.id) THEN t1.toPinId ELSE t1.fromPinId,
             IF StartsWith(t2.fromPinId, junction.id) THEN t2.toPinId ELSE t2.fromPinId,
             Max(t1.width, t2.width), t1.color)

\* lines 1174-1178: the junction whose deletion merges its two traces
JunctionToMerge ==
    LET selectedComps == Filter(components, LAMBDA c : c.id \in selectedIds)
        junction == Find(selectedComps, LAMBDA c : c.footprintId = "PIN")
    IN  IF junction # <<>> /\ Cardinality(selectedIds) = 1
           /\ Len(ConnectedTraces(junction[1])) = 2
        THEN junction ELSE <<>>

\* lines 1184-1198
MergeDelete(junction) ==
    LET t1 == ConnectedTraces(junction)[1]
        t2 == ConnectedTraces(junction)[2]
        merged == MergedTrace(junction, t1, t2, now)
    IN  [components |-> Filter(components, LAMBDA c : c.id # junction.id),
         traces |-> Append(Filter(traces, LAMBDA t : t.id # t1.id /\ t.id # t2.id), merged),
         selectedIds |-> {merged.id}, usedNow |-> TRUE]

\* CascadeDelete that removes the selected traces only
CascadeDeleteSelectedOnly ==
    [components |-> Filter(components, LAMBDA c : c.id \notin selectedIds),
     traces |-> Filter(traces, LAMBDA t : t.id \notin selectedIds),
     selectedIds |-> {}, usedNow |-> FALSE]

\* CascadeDelete that looks at the source pin of a trace only
CascadeDeleteFromOnly ==
    [components |-> Filter(components, LAMBDA c : c.id \notin selectedIds),
     traces |-> Filter(traces, LAMBDA t :
                    /\ t.id \notin selectedIds
                    /\ \A i \in 1..Len(components) :
                          components[i].id \in selectedIds
                             => \A k \in 1..Len(PinsOf(components[i])) :
                                   PinsOf(components[i])[k].id # t.fromPinId),
     selectedIds |-> {}, usedNow |-> FALSE]

\* allPins.find(p => p.id === pinId)?.componentId || ''
OwnerOf(pinId) == IF FindPin(pinId) = <<>> THEN <<>> ELSE FindPin(pinId)[1].componentId

\* lines 1202-1207
CascadeDelete ==
    [components |-> Filter(components, LAMBDA c : c.id \notin selectedIds),
     traces |-> Filter(traces, LAMBDA t :
                    /\ t.id \notin selectedIds
                    /\ OwnerOf(t.fromPinId) \notin selectedIds
                    /\ OwnerOf(t.toPinId) \notin selectedIds),
     selectedIds |-> {}, usedNow |-> FALSE]

\* deleteSelected
deleteSelected ==
    IF JunctionToMerge # <<>> THEN MergeDelete(JunctionToMerge[1]) ELSE CascadeDelete

\* line 1211
updateTraceWidth(id, width) ==
    [i \in 1..Len(traces) |->
        IF traces[i].id = id THEN [traces[i] EXCEPT !.width = width] ELSE traces[i]]

---------------------------------------------------------------------------
(* runDRC                                                                  *)

\* line 810: clearance = SNAP_SIZE * 0.45, in thousandths of a world unit
Clearance == SNAP_SIZE * 45

\* checkCollision(a, b, clearance) on points given in tenths; points further
\* apart than the clearance along one axis are not squared
TooClose(a, b) ==
    /\ 100 * (a.x - b.x) < Clearance /\ 100 * (b.x - a.x) < Clearance
    /\ 100 * (a.y - b.y) < Clearance /\ 100 * (b.y - a.y) < Clearance
    /\ checkCollision(Vec(100 * a.x, 100 * a.y), Vec(100 * b.x, 100 * b.y),
                      Clearance)

DrcWeights == BernsteinWeights(DrcSamples)

\* line 817: Array.from({ length: 15 }, (_, i) => getPointOnBezier(i / 14, ...))
DrcPoints(p1, p2, trace) ==
    LET ctrl == getBezierControlPoints(p1, p2, trace)
    IN  [i \in 0..DrcSamples |->
            CubicAt(DrcWeights[i], DrcSamples, p1, ctrl.c1, ctrl.c2, p2)]

\* traceData that takes a pin that is not on the board to be at the origin
traceDataAtOrigin ==
    Flatten([i \in 1..Len(traces) |->
        LET t == traces[i]
            p1 == FindPin(t.fromPinId)
            p2 == FindPin(t.toPinId)
            at1 == IF p1 = <<>> THEN Vec(0, 0) ELSE p1[1].globalPos
            at2 == IF p2 = <<>> THEN Vec(0, 0) ELSE p2[1].globalPos
        IN  <<[id |-> t.id, from |-> t.fromPinId, to |-> t.toPinId,
               pts |-> DrcPoints(at1, at2, t)]>>])

\* lines 812-820: the traces with both pins resolved, with their samples
traceData ==
    Flatten([i \in 1..Len(traces) |->
        LET t == traces[i]
            p1 == FindPin(t.fromPinId)
            p2 == FindPin(t.toPinId)
        IN  IF p1 = <<>> \/ p2 = <<>> THEN <<>>
            ELSE <<[id |-> t.id, from |-> t.fromPinId, to |-> t.toPinId,
                    pts |-> DrcPoints(p1[1].globalPos, p2[1].globalPos, t)]>>])

ConnectedNever(a, b) == FALSE

\* line 826
Connected(a, b) ==
    a.from = b.from \/ a.from = b.to \/ a.to = b.from \/ a.to = b.to

\* lines 830-843: the first pair of samples of a and b that collide, pa in
\* the outer loop and pb in the inner one; <<>> when none does
FirstCollision(a, b) ==
    LET hitA == {i \in 0..DrcSamples :
                    \E j \in 0..DrcSamples : TooClose(a.pts[i], b.pts[j])}
    IN  IF hitA = {} THEN <<>>
        ELSE LET i == CHOOSE x \in hitA : \A y \in hitA : x <= y
                 hitB == {j \in 0..DrcSamples : TooClose(a.pts[i], b.pts[j])}
                 j == CHOOSE x \in hitB : \A y \in hitB : x <= y
             IN  <<[pa |-> a.pts[i], pb |-> b.pts[j]]>>

PairStepMarksFirst(acc, a, b) ==
    IF Connected(a, b) THEN acc
    ELSE LET hit == FirstCollision(a, b)
         IN  IF hit = <<>> THEN acc
             ELSE [invalid |-> acc.invalid \cup {a.id},
                   markers |->
                      IF Len(acc.markers) < MarkerCap
                      THEN Append(acc.markers,
                                  Vec((hit[1].pa.x + hit[1].pb.x) \div 2,
                                      (hit[1].pa.y + hit[1].pb.y) \div 2))
                      ELSE acc.markers]

\* lines 824-844: one pair of traces
PairStep(acc, a, b) ==
    IF Connected(a, b) THEN acc
    ELSE LET hit == FirstCollision(a, b)
         IN  IF hit = <<>> THEN acc
             ELSE [invalid |-> acc.invalid \cup {a.id, b.id},
                   markers |->
                      IF Len(acc.markers) < MarkerCap
                      THEN Append(acc.markers,
                                  Vec((hit[1].pa.x + hit[1].pb.x) \div 2,
                                      (hit[1].pa.y + hit[1].pb.y) \div 2))
                      ELSE acc.markers]

\* TracePairs that takes every pair of traces both ways round
RECURSIVE TracePairsBothWays(_, _, _, _)
TracePairsBothWays(data, i, j, acc) ==
    IF i > Len(data) THEN acc
    ELSE IF j > Len(data) THEN TracePairsBothWays(data, i + 1, 1, acc)
    ELSE IF j = i THEN TracePairsBothWays(data, i, j + 1, acc)
    ELSE TracePairsBothWays(data, i, j + 1, PairStep(acc, data[i], data[j]))

\* lines 822-845: for (i ...) for (j = i + 1 ...)
RECURSIVE TracePairs(_, _, _, _)
TracePairs(data, i, j, acc) ==
    IF i > Len(data) THEN acc
    ELSE IF j > Len(data) THEN TracePairs(data, i + 1, i + 2, acc)
    ELSE LET next == PairStep(acc, data[i], data[j])
         IN  IF next = acc THEN TracePairs(data, i, j + 1, acc)
             ELSE TracePairs(data, i, j + 1, next)

\* lines 856-865: the first sample of t that collides with the pad at pinPos
PadHit(t, pinPos) ==
    LET hits == {k \in 0..DrcSamples : TooClose(t.pts[k], pinPos)}
    IN  IF hits = {} THEN <<>>
        ELSE <<t.pts[CHOOSE x \in hits : \A y \in hits : x <= y]>>

PadStepUncapped(acc, c, t) ==
    LET foot == FindFootprint(c.footprintId)[1]
        hits == Flatten([k \in 1..Len(foot.pins) |->
                    IF t.from = PinId(c.id, foot.pins[k].id)
                       \/ t.to = PinId(c.id, foot.pins[k].id)
                    THEN <<>>
                    ELSE PadHit(t, getPinGlobalPos(c, foot, foot.pins[k]))])
    IN  IF hits = <<>> THEN acc
        ELSE [invalid |-> acc.invalid \cup {t.id},
              markers |-> Append(acc.markers, hits[1])]

\* PadStep that gives a marker for every pad of the component that collides
PadStepEveryPad(acc, c, t) ==
    LET foot == FindFootprint(c.footprintId)[1]
        hits == Flatten([k \in 1..Len(foot.pins) |->
                    IF t.from = PinId(c.id, foot.pins[k].id)
                       \/ t.to = PinId(c.id, foot.pins[k].id)
                    THEN <<>>
                    ELSE PadHit(t, getPinGlobalPos(c, foot, foot.pins[k]))])
    IN  IF hits = <<>> THEN acc
        ELSE [invalid |-> acc.invalid \cup {t.id},
              markers |-> SubSeq(acc.markers \o hits, 1,
                                 Min(MarkerCap, Len(acc.markers) + Len(hits)))]

\* lines 850-867: one component and one trace; the pads that are no end of
\* the trace are tested in order, and the first that collides gives the marker
PadStep(acc, c, t) ==
    LET foot == FindFootprint(c.footprintId)[1]
        hits == Flatten([k \in 1..Len(foot.pins) |->
                    IF t.from = PinId(c.id, foot.pins[k].id)
                       \/ t.to = PinId(c.id, foot.pins[k].id)
                    THEN <<>>
                    ELSE PadHit(t, getPinGlobalPos(c, foot, foot.pins[k]))])
    IN  IF hits = <<>> THEN acc
        ELSE [invalid |-> acc.invalid \cup {t.id},
              markers |-> IF Len(acc.markers) < MarkerCap
                          THEN Append(acc.markers, hits[1])
                          ELSE acc.markers]

\* lines 847-868: components.forEach(c => traceData.forEach(t => ...))
RECURSIVE PadPairs(_, _, _, _)
PadPairs(data, ci, ti, acc) ==
    IF ci > Len(components) THEN acc
    ELSE IF FindFootprint(components[ci].footprintId) = <<>>
            \/ ti > Len(data)
    THEN PadPairs(data, ci + 1, 1, acc)
    ELSE LET next == PadStep(acc, components[ci], data[ti])
         IN  IF next = acc THEN PadPairs(data, ci, ti + 1, acc)
             ELSE PadPairs(data, ci, ti + 1, next)

\* runDRC that adds what it finds to the invalid set of the last check
runDRCKeepsInvalid ==
    LET data == traceData
        pairs == TracePairs(data, 1, 2, [invalid |-> {}, markers |-> <<>>])
        all == PadPairs(data, 1, 1, pairs)
    IN  [invalid |-> invalidTraceIds \cup all.invalid, markers |-> all.markers,
         status |-> IF all.invalid # {} THEN "fail"
                    ELSE IF Len(traces) > 0 THEN "pass" ELSE "none"]

runDRCNeverNone ==
    LET data == traceData
        pairs == TracePairs(data, 1, 2, [invalid |-> {}, markers |-> <<>>])
        all == PadPairs(data, 1, 1, pairs)
    IN  [invalid |-> all.invalid, markers |-> all.markers,
         status |-> IF all.invalid # {} THEN "fail" ELSE "pass"]

\* runDRC, lines 806-874: the invalid set, the markers and the status it sets
runDRC ==
    LET data == traceData
        pairs == TracePairs(data, 1, 2, [invalid |-> {}, markers |-> <<>>])
        all == PadPairs(data, 1, 1, pairs)
    IN  [invalid |-> all.invalid, markers |-> all.markers,
         status |-> IF all.invalid # {} THEN "fail"
                    ELSE IF Len(traces) > 0 THEN "pass" ELSE "none"]

---------------------------------------------------------------------------
(* The editing session                                                     *)

\* World points the pointer visits: two grid points four pitches apart (the
\* pins of a resistor placed at the first), a point beside the middle of the
\* segment between them, and a grid point away from it.
Worlds == {Vec(0, 0), Vec(1016, 0), Vec(508, 40), Vec(508, 508)}

\* The points along that segment: its ends, the point beside its middle and
\* a point beside its first quarter that is out of reach of a control handle
LineWorlds == {Vec(0, 0), Vec(254, 125), Vec(508, 40), Vec(1016, 0)}

\* The first points and the default first control handle of that segment
HandleWorlds == Worlds \cup {Vec(254, 0)}

\* The grid points at which the anchor pin of a component rests in the
\* explored part of the state space
Sites == {Vec(0, 0), Vec(508, 508)}

\* The points at which the pin of a junction rests there
JunctionSites == Sites \cup {Vec(508, 0)}

\* Two of the footprints the library panel offers (it offers all but 'PIN')
Library == {"resistor", "pin"}

\* The values the width slider is set to
Widths == {8, 12}

Init ==
    /\ components = <<>>
    /\ traces = <<>>
    /\ selectedIds = {}
    /\ tool = "select"
    /\ pendingFootprintId = <<>>
    /\ viewport = [x |-> 0, y |-> 0, scale |-> InitialScale]
    /\ dragRef = NoDrag
    /\ routingPreview = <<>>
    /\ marquee = <<>>
    /\ invalidTraceIds = {}
    /\ violationMarkers = <<>>
    /\ isDrcRunning = FALSE
    /\ lastCheckResult = "none"
    /\ drcTimers = 1
    /\ flagTimers = 0
    /\ now = 1
    /\ pointer = <<>>
    /\ burst = 0
    /\ gesture = <<>>
    /\ lastSplit = <<>>
    /\ last = <<>>

\* useEffect, lines 876-879: when a handler has set the component or the
\* trace list, the cleanup clears the timer of the previous run of the effect
\* and the effect starts a new one; nothing of the DRC state changes.
ResetTimerKeepsPending(pending) == pending + 1

ResetTimerClearsOnly(pending) == 0

ResetTimer(pending) == (IF pending > 0 THEN pending - 1 ELSE 0) + 1

\* The effect not starting a timer after a change of the board
DebounceEffectNoTimer(touched) ==
    /\ drcTimers' = drcTimers
    /\ burst' = IF touched /\ burst < MaxBurst THEN burst + 1 ELSE burst
    /\ UNCHANGED <<invalidTraceIds, violationMarkers, isDrcRunning, lastCheckResult,
                   flagTimers>>

DebounceEffect(touched) ==
    /\ drcTimers' = IF touched THEN ResetTimer(drcTimers) ELSE drcTimers
    /\ burst' = IF touched /\ burst < MaxBurst THEN burst + 1 ELSE burst
    /\ UNCHANGED <<invalidTraceIds, violationMarkers, isDrcRunning, lastCheckResult,
                   flagTimers>>

\* onPointerMove calls setComponents (move, lines 1080-1084) or setTraces
\* (handle, line 1094) whatever the new value is
MoveTouches ==
    /\ dragRef # NoDrag
    /\ dragRef[1].id # NoId
    /\ \/ /\ dragRef[1].type = "move"
          /\ \/ Find(components, LAMBDA c : c.id = dragRef[1].id) # <<>>
             \/ dragRef[1].initialComp # <<>>
       \/ dragRef[1].type = "handle" /\ dragRef[1].handleIdx # 0

\* The clock: a handler that stamped an id is followed by a later time.
Tick(usedNow) == now' = IF usedNow THEN now + 1 ELSE now

\* library button, line 1231
SelectFootprint(f) ==
    /\ pointer = <<>>
    /\ pendingFootprintId # <<f>>
    /\ pendingFootprintId' = <<f>>
    /\ UNCHANGED <<components, traces, selectedIds, tool, viewport, dragRef,
                   routingPreview, marquee, now, pointer, gesture, lastSplit>>
    /\ DebounceEffect(FALSE)
    /\ last' = <<>>

\* tool buttons, lines 1259-1260
SetTool(t) ==
    /\ pointer = <<>>
    /\ tool # t
    /\ tool' = t
    /\ UNCHANGED <<components, traces, selectedIds, pendingFootprintId, viewport,
                   dragRef, routingPreview, marquee, now, pointer, gesture, lastSplit>>
    /\ DebounceEffect(FALSE)
    /\ last' = <<>>

\* The ids of a list of components or traces, in order
IdsOf(seq) == [i \in 1..Len(seq) |-> seq[i].id]

\* What a drag-split at time t does to the trace with the given id
SplitRecord(traceId, t) ==
    LET orig == Find(traces, LAMBDA x : x.id = traceId)[1]
    IN  [junction |-> JunctionIdAt(t), fromPinId |-> orig.fromPinId,
         toPinId |-> orig.toPinId, seg1 |-> SegIdAt(t, "1"), seg2 |-> SegIdAt(t, "2"),
         componentIds |-> IdsOf(components)]

\* The name of a handler that changed which components and traces exist,
\* or that ended a route gesture, followed by a note
Remember(handler, note, comps, trcs) ==
    IF \/ IdsOf(comps) # IdsOf(components)
       \/ IdsOf(trcs) # IdsOf(traces)
       \/ handler = "onPointerUp" /\ dragRef # NoDrag /\ dragRef[1].type = "route"
    THEN <<handler>> \o note
    ELSE <<>>

\* What a delete that leaves comps and trcs removes: the drag-split whose
\* junction goes, and how many components and traces
Removed(comps, trcs) ==
    [split |-> IF \E i \in 1..Len(comps) :
                     lastSplit # <<>> /\ comps[i].id = lastSplit[1].junction
               THEN <<>> ELSE lastSplit,
     components |-> Cardinality({components[i].id : i \in 1..Len(components)}
                                   \ {comps[i].id : i \in 1..Len(comps)}),
     traces |-> Cardinality({traces[i].id : i \in 1..Len(traces)}
                               \ {trcs[i].id : i \in 1..Len(trcs)})]

\* the pointer goes down on the board at the world point w
PointerDown(w, button, shiftKey) ==
    /\ pointer = <<>>
    /\ LET client == ClientOf(w)
           hits == IF pendingFootprintId # <<>> \/ tool = "pan" \/ button = 1
                   THEN {} ELSE HandleHits(getScreenToWorld(client))
       IN  \E handle \in (IF hits = {} THEN {<<>>} ELSE {<<h>> : h \in hits}) :
             \E r \in {onPointerDown(client, button, shiftKey, handle)} :
                 /\ Tick(r.usedNow)
                 /\ components' = r.components
                 /\ traces' = r.traces
                 /\ selectedIds' = r.selectedIds
                 /\ pendingFootprintId' = r.pendingFootprintId
                 /\ dragRef' = r.dragRef
                 /\ pointer' = <<client>>
                 /\ gesture' = IF r.onTrace # <<>>
                               THEN <<[id |-> r.onTrace[1],
                                       start |-> getScreenToWorld(client),
                                       shiftKey |-> shiftKey, splits |-> 0]>>
                               ELSE <<>>
                 /\ last' = IF IdsOf(r.components) # IdsOf(components)
                            THEN <<"onPointerDown">>
                            ELSE <<"press", [button |-> button,
                                             shiftKey |-> shiftKey]>>
                 /\ DebounceEffect(r.usedNow)
    /\ UNCHANGED <<tool, viewport, routingPreview, marquee, lastSplit>>

\* the pressed pointer moves to the world point w
PointerMove(w) ==
    /\ pointer # <<>>
    /\ pendingFootprintId = <<>>
    /\ \E client \in {ClientOf(w)} : \E r \in {onPointerMove(client)} :
           /\ Tick(r.usedNow)
           /\ components' = r.components
           /\ traces' = r.traces
           /\ selectedIds' = r.selectedIds
           /\ dragRef' = r.dragRef
           /\ routingPreview' = r.routingPreview
           /\ marquee' = r.marquee
           /\ viewport' = r.viewport
           /\ pointer' = <<client>>
           /\ gesture' = IF r.usedNow
                         THEN <<[gesture[1] EXCEPT !.splits = gesture[1].splits + 1]>>
                         ELSE gesture
           /\ lastSplit' = IF r.usedNow THEN <<SplitRecord(dragRef[1].id, now)>>
                           ELSE lastSplit
           /\ last' = Remember("onPointerMove", <<>>, r.components, r.traces)
           /\ DebounceEffect(r.usedNow \/ MoveTouches)
    /\ UNCHANGED <<tool, pendingFootprintId>>

\* the pointer moves over the world point w with no button held and no
\* footprint pending (lines 1039-1051: the hovered pin is not part of the
\* state of the model)
PointerHover(w) ==
    /\ pointer = <<>>
    /\ pendingFootprintId = <<>>
    /\ \E client \in {ClientOf(w)} : \E r \in {onPointerMove(client)} :
           /\ Tick(r.usedNow)
           /\ components' = r.components
           /\ traces' = r.traces
           /\ selectedIds' = r.selectedIds
           /\ dragRef' = r.dragRef
           /\ routingPreview' = r.routingPreview
           /\ marquee' = r.marquee
           /\ viewport' = r.viewport
           /\ DebounceEffect(r.usedNow \/ MoveTouches)
    /\ last' = <<"hover">>
    /\ UNCHANGED <<tool, pendingFootprintId, pointer, gesture, lastSplit>>

\* PointerUp that leaves the marquee rectangle on the board
PointerUpKeepsMarquee ==
    /\ pointer # <<>>
    /\ \E r \in {onPointerUp(pointer[1])} :
           /\ Tick(r.usedNow)
           /\ components' = r.components
           /\ traces' = r.traces
           /\ last' = Remember("onPointerUp", <<>>, r.components, r.traces)
           /\ DebounceEffect(r.usedNow)
    /\ dragRef' = NoDrag
    /\ routingPreview' = <<>>
    /\ marquee' = marquee
    /\ pointer' = <<>>
    /\ gesture' = <<>>
    /\ UNCHANGED <<selectedIds, tool, pendingFootprintId, viewport, lastSplit>>

\* the pointer is released where it is
PointerUp ==
    /\ pointer # <<>>
    /\ \E r \in {onPointerUp(pointer[1])} :
           /\ Tick(r.usedNow)
           /\ components' = r.components
           /\ traces' = r.traces
           /\ last' = Remember("onPointerUp", <<>>, r.components, r.traces)
           /\ DebounceEffect(r.usedNow)
    /\ dragRef' = NoDrag
    /\ routingPreview' = <<>>
    /\ marquee' = <<>>
    /\ pointer' = <<>>
    /\ gesture' = <<>>
    /\ UNCHANGED <<selectedIds, tool, pendingFootprintId, viewport, lastSplit>>

RotateSelectedWhenPassing ==
    /\ pointer = <<>>
    /\ selectedIds # {}
    /\ lastCheckResult # "fail"
    /\ components' = rotateSelected
    /\ DebounceEffect(TRUE)
    /\ UNCHANGED <<traces, selectedIds, tool, pendingFootprintId, viewport, dragRef,
                   routingPreview, marquee, now, pointer, gesture, lastSplit>>
    /\ last' = <<"rotateSelected">>

\* toolbar button, line 1262
RotateSelected ==
    /\ pointer = <<>>
    /\ selectedIds # {}
    /\ components' = rotateSelected
    /\ DebounceEffect(TRUE)
    /\ UNCHANGED <<traces, selectedIds, tool, pendingFootprintId, viewport, dragRef,
                   routingPreview, marquee, now, pointer, gesture, lastSplit>>
    /\ last' = <<"rotateSelected">>

\* toolbar button, line 1263
DeleteSelected ==
    /\ pointer = <<>>
    /\ selectedIds # {}
    /\ \E r \in {deleteSelected} :
           /\ Tick(r.usedNow)
           /\ components' = r.components
           /\ traces' = r.traces
           /\ selectedIds' = r.selectedIds
           /\ lastSplit' =
                IF \E i \in 1..Len(r.components) :
                      lastSplit # <<>> /\ r.components[i].id = lastSplit[1].junction
                THEN lastSplit ELSE <<>>
           /\ last' = Remember("deleteSelected", <<Removed(r.components, r.traces)>>,
                               r.components, r.traces)
    /\ DebounceEffect(TRUE)
    /\ UNCHANGED <<tool, pendingFootprintId, viewport, dragRef, routingPreview,
                   marquee, pointer, gesture>>

\* width slider of the trace editor, lines 1387-1394
UpdateTraceWidth(width) ==
    /\ pointer = <<>>
    /\ LET trcs == Filter(traces, LAMBDA t : t.id \in selectedIds)
           comps == Filter(components, LAMBDA c : c.id \in selectedIds)
       IN  /\ Len(trcs) = 1
           /\ Len(comps) = 0
           /\ trcs[1].width # width
           /\ traces' = updateTraceWidth(trcs[1].id, width)
    /\ DebounceEffect(TRUE)
    /\ UNCHANGED <<components, selectedIds, tool, pendingFootprintId, viewport,
                   dragRef, routingPreview, marquee, now, pointer, gesture, lastSplit>>
    /\ last' = <<>>

\* rotation buttons of the component inspector, lines 1399 and 1427
SetRotation(angle) ==
    /\ pointer = <<>>
    /\ LET trcs == Filter(traces, LAMBDA t : t.id \in selectedIds)
           comps == Filter(components, LAMBDA c : c.id \in selectedIds)
       IN  /\ Len(comps) = 1
           /\ Len(trcs) = 0
           /\ components' = updateComponentProps(comps[1].id, angle)
    /\ DebounceEffect(TRUE)
    /\ UNCHANGED <<traces, selectedIds, tool, pendingFootprintId, viewport, dragRef,
                   routingPreview, marquee, now, pointer, gesture, lastSplit>>
    /\ last' = <<"updateComponentProps">>

\* DrcPass that leaves the status as it was
DrcPassKeepsStatus ==
    \E r \in {runDRC} :
        /\ invalidTraceIds' = r.invalid
        /\ violationMarkers' = r.markers
        /\ lastCheckResult' = lastCheckResult
        /\ isDrcRunning' = TRUE
        /\ flagTimers' = flagTimers + 1

\* What a run of runDRC sets (lines 807, 870-873)
DrcPass ==
    \E r \in {runDRC} :
        /\ invalidTraceIds' = r.invalid
        /\ violationMarkers' = r.markers
        /\ lastCheckResult' = r.status
        /\ isDrcRunning' = TRUE
        /\ flagTimers' = flagTimers + 1

\* the timer of the effect expires: setTimeout(runDRC, 800), line 877
DrcTimerExpires ==
    /\ drcTimers > 0
    /\ flagTimers < MaxFlagTimers
    /\ DrcPass
    /\ drcTimers' = drcTimers - 1
    /\ burst' = 0
    /\ UNCHANGED <<components, traces, selectedIds, tool, pendingFootprintId,
                   viewport, dragRef, routingPreview, marquee, now, pointer,
                   gesture, lastSplit>>
    /\ last' = <<"runDRC", [burst |-> burst,
                           cleared |-> invalidTraceIds \ invalidTraceIds']>>

\* DRC button, line 1242
RunDrcButton ==
    /\ pointer = <<>>
    /\ flagTimers < MaxFlagTimers
    /\ DrcPass
    /\ UNCHANGED <<components, traces, selectedIds, tool, pendingFootprintId,
                   viewport, dragRef, routingPreview, marquee, drcTimers, now,
                   pointer, burst, gesture, lastSplit>>
    /\ last' = <<>>

\* The timer of line 873 expiring without clearing the flag
DrcFlagExpiresKeepsFlag ==
    /\ flagTimers > 0
    /\ isDrcRunning' = isDrcRunning
    /\ flagTimers' = flagTimers - 1
    /\ UNCHANGED <<components, traces, selectedIds, tool, pendingFootprintId,
                   viewport, dragRef, routingPreview, marquee, invalidTraceIds,
                   violationMarkers, lastCheckResult, drcTimers, now, pointer,
                   burst, gesture, lastSplit>>
    /\ last' = <<>>

\* a timer of line 873 expires: setIsDrcRunning(false)
DrcFlagExpires ==
    /\ flagTimers > 0
    /\ isDrcRunning' = FALSE
    /\ flagTimers' = flagTimers - 1
    /\ UNCHANGED <<components, traces, selectedIds, tool, pendingFootprintId,
                   viewport, dragRef, routingPreview, marquee, invalidTraceIds,
                   violationMarkers, lastCheckResult, drcTimers, now, pointer,
                   burst, gesture, lastSplit>>
    /\ last' = <<>>

\* The explored part of the state space: the clock, the size of the board,
\* where the components rest, how far the view is panned and how far a
\* control handle is pulled from its pin.
OffsetWithin(o) ==
    o = NoOffset \/ (Abs(o[1].x) <= MaxOffset /\ Abs(o[1].y) <= MaxOffset)

OnSites(comps) ==
    \A i \in 1..Len(comps) :
        /\ PinsOf(comps[i]) # <<>>
        /\ PinsOf(comps[i])[1].globalPos \in
              (IF comps[i].footprintId = "PIN" THEN JunctionSites ELSE Sites)

\* A step stays in the explored part when the state it leads to is in it.
Within(maxNow) ==
    /\ now' <= maxNow
    /\ pendingFootprintId' # <<>> => (now' < maxNow /\ Len(components') < MaxComps)
    /\ Len(components') <= MaxComps
    /\ Len(traces') <= MaxTraces
    /\ components' = components \/ OnSites(components')
    /\ viewport'.x \in 0..MaxPan
    /\ viewport'.y = 0
    /\ traces' = traces \/ \A i \in 1..Len(traces') :
          OffsetWithin(traces'[i].c1Offset) /\ OffsetWithin(traces'[i].c2Offset)

\* The same for a session in which the components rest anywhere on the grid
\* within MaxSite of the origin, the view is not panned and no control
\* handle is pulled
WithinLayout ==
    /\ now' <= MaxNowLayout
    /\ pendingFootprintId' # <<>> =>
          (now' < MaxNowLayout /\ Len(components') < MaxComps)
    /\ Len(components') <= MaxComps
    /\ Len(traces') <= MaxTraces
    /\ \A i \in 1..Len(components') :
          /\ PinsOf(components'[i]) # <<>>
          /\ Abs(PinsOf(components'[i])[1].globalPos.x) <= MaxSite
          /\ Abs(PinsOf(components'[i])[1].globalPos.y) <= MaxSite
    /\ viewport' = viewport
    /\ \A i \in 1..Len(traces') :
          traces'[i].c1Offset = NoOffset /\ traces'[i].c2Offset = NoOffset

\* An editing session with the select tool and the primary button: placing,
\* moving, routing, splitting, selecting and deleting.
Next ==
    \/ \E f \in Library : SelectFootprint(f) /\ Within(MaxNow)
    \/ \E w \in Worlds, shiftKey \in BOOLEAN :
          PointerDown(w, 0, shiftKey) /\ Within(MaxNow)
    \/ \E w \in Worlds : PointerMove(w) /\ Within(MaxNow)
    \/ PointerUp /\ Within(MaxNow)
    \/ DeleteSelected /\ Within(MaxNow)

Spec == Init /\ [][Next]_vars

\* A longer session on a board of one resistor and the junctions on its
\* traces, with the width slider.
NextJunction ==
    \/ SelectFootprint("resistor") /\ Within(MaxNowJunction)
    \/ \E w \in LineWorlds : PointerDown(w, 0, FALSE) /\ Within(MaxNowJunction)
    \/ \E w \in LineWorlds : PointerMove(w) /\ Within(MaxNowJunction)
    \/ PointerUp /\ Within(MaxNowJunction)
    \/ DeleteSelected /\ Within(MaxNowJunction)
    \/ \E width \in Widths : UpdateTraceWidth(width) /\ Within(MaxNowJunction)

SpecJunction == Init /\ [][NextJunction]_vars

\* A session with every tool: the pan tool and the middle button, the
\* rotate button, the width slider and the control handles as well.
NextTools ==
    \/ SelectFootprint("resistor") /\ Within(MaxNowTools)
    \/ \E t \in {"select", "pan"} : SetTool(t) /\ Within(MaxNowTools)
    \/ \E w \in HandleWorlds, button \in {0, 1} :
          PointerDown(w, button, FALSE) /\ Within(MaxNowTools)
    \/ \E w \in HandleWorlds : PointerMove(w) /\ Within(MaxNowTools)
    \/ PointerUp /\ Within(MaxNowTools)
    \/ RotateSelected /\ Within(MaxNowTools)
    \/ DeleteSelected /\ Within(MaxNowTools)
    \/ \E width \in Widths : UpdateTraceWidth(width) /\ Within(MaxNowTools)

SpecTools == Init /\ [][NextTools]_vars

\* A resistor resting with its first pin at the origin, alone or with a
\* trace between its pins
LayoutBoards ==
    {[components |-> <<[id |-> CompIdAt(1), footprintId |-> "resistor",
                        position |-> getCompPosForPinTarget("resistor", Vec(0, 0), 0),
                        rotation |-> 0]>>,
      traces |-> trcs] :
        trcs \in {<<>>, <<NewTrace(TraceIdAt(2), PinId(CompIdAt(1), "1"),
                                   PinId(CompIdAt(1), "2"), RouteWidth, RouteColor)>>}}

\* The first pin of that resistor, a point beside the middle of the trace,
\* and two opposite corners of a rectangle that holds the resistor where it
\* rests
LayoutWorlds == {Vec(0, 0), Vec(508, 40), Vec(-400, -400), Vec(1400, 400)}

\* The angles of the rotation buttons of the inspector
Angles == {0, 90, 180, 270}

InitLayout ==
    /\ \E b \in LayoutBoards : components = b.components /\ traces = b.traces
    /\ selectedIds = {}
    /\ tool = "select"
    /\ pendingFootprintId = <<>>
    /\ viewport = [x |-> 0, y |-> 0, scale |-> InitialScale]
    /\ dragRef = NoDrag
    /\ routingPreview = <<>>
    /\ marquee = <<>>
    /\ invalidTraceIds = {}
    /\ violationMarkers = <<>>
    /\ isDrcRunning = FALSE
    /\ lastCheckResult = "none"
    /\ drcTimers = 1
    /\ flagTimers = 0
    /\ now = 3
    /\ pointer = <<>>
    /\ burst = 0
    /\ gesture = <<>>
    /\ lastSplit = <<>>
    /\ last = <<>>

\* A session of placing, moving, rotating, splitting and selecting by marquee
NextLayout ==
    \/ SelectFootprint("pin") /\ WithinLayout
    \/ \E w \in LayoutWorlds : PointerDown(w, 0, FALSE) /\ WithinLayout
    \/ \E w \in LayoutWorlds : PointerMove(w) /\ WithinLayout
    \/ PointerUp /\ WithinLayout
    \/ RotateSelected /\ WithinLayout
    \/ \E angle \in Angles : SetRotation(angle) /\ WithinLayout

SpecLayout == InitLayout /\ [][NextLayout]_vars

---------------------------------------------------------------------------
(* Design-rule checks on given boards                                      *)

\* A single-pad component with its pad at the grid point site
PadAt(k, site) ==
    [id |-> CompIdAt(k), footprintId |-> "pin",
     position |-> getCompPosForPinTarget("pin", site, 0), rotation |-> 0]

TraceBetween(k, fromComp, toComp) ==
    NewTrace(TraceIdAt(k), PinId(CompIdAt(fromComp), "p1"),
             PinId(CompIdAt(toComp), "p1"), RouteWidth, RouteColor)

\* Four pads, two of them fixed four pitches apart and two on, beside or
\* across the segment between those, with no trace, the trace between the
\* fixed pads, or that trace and one more
SmallBoards ==
    {[components |-> <<PadAt(1, Vec(0, 0)), PadAt(2, Vec(1016, 0)),
                       PadAt(3, s3), PadAt(4, s4)>>,
      traces |-> trcs] :
        s3 \in {Vec(0, 0), Vec(0, 254), Vec(508, -508)},
        s4 \in {Vec(1016, 0), Vec(1016, 254), Vec(508, 508)},
        trcs \in {<<>>, <<TraceBetween(5, 1, 2)>>}
                 \cup {<<TraceBetween(5, 1, 2), TraceBetween(6, e[1], e[2])>> :
                          e \in {<<3, 4>>, <<1, 4>>}}}

\* n traces laid on top of each other, each between two pads of its own
CrowdedBoard(n) ==
    [components |-> [k \in 1..(2 * n) |->
                        PadAt(k, IF k % 2 = 1 THEN Vec(0, 0) ELSE Vec(1016, 0))],
     traces |-> [k \in 1..n |-> TraceBetween(2 * n + k, 2 * k - 1, 2 * k)]]

DrcBoards == SmallBoards

\* A press on the trace between the fixed pads and a press on the body of a
\* pad at the origin
DrcWorlds == {Vec(254, 0), Vec(-120, -120)}

InitDrc ==
    /\ \E b \in DrcBoards : components = b.components /\ traces = b.traces
    /\ selectedIds = {}
    /\ tool = "select"
    /\ pendingFootprintId = <<>>
    /\ viewport = [x |-> 0, y |-> 0, scale |-> InitialScale]
    /\ dragRef = NoDrag
    /\ routingPreview = <<>>
    /\ marquee = <<>>
    /\ invalidTraceIds = {}
    /\ violationMarkers = <<>>
    /\ isDrcRunning = FALSE
    /\ lastCheckResult = "none"
    /\ drcTimers = 1
    /\ flagTimers = 0
    /\ now = 2 * MaxCrowd + MaxCrowd + 1
    /\ pointer = <<>>
    /\ burst = 0
    /\ gesture = <<>>
    /\ lastSplit = <<>>
    /\ last = <<>>

\* Checks by the timer and by the button, between clicks, deletes, rotates
\* and changes of width
NextDrc ==
    \/ DrcTimerExpires
    \/ RunDrcButton
    \/ DrcFlagExpires
    \/ \E w \in DrcWorlds : PointerDown(w, 0, FALSE)
    \/ PointerUp
    \/ DeleteSelected
    \/ RotateSelected
    \/ \E width \in Widths : UpdateTraceWidth(width)

SpecDrc == InitDrc /\ [][NextDrc]_vars

\* The same session on the boards of four pads and two traces, the second
\* of which crosses the first or leaves its first pin, with the timers of
\* lines 877 and 873 expiring when they are due
InitCatchUp ==
    /\ InitDrc
    /\ Len(components) = 4
    /\ Len(traces) = 2
    /\ PinsOf(components[3])[1].globalPos = Vec(508, -508)
    /\ PinsOf(components[4])[1].globalPos = Vec(508, 508)

\* A timer of line 877 that is pending and not cleared expires: strong
\* fairness of DrcTimerExpires, with its guard and its effect on the timer
\* written out
TimerFairness ==
    \/ <>[](drcTimers = 0 \/ flagTimers = MaxFlagTimers)
    \/ []<><<drcTimers' < drcTimers>>_vars

SpecCatchUp ==
    /\ InitCatchUp
    /\ [][NextDrc]_vars
    /\ TimerFairness
    /\ WF_vars(DrcFlagExpires)

---------------------------------------------------------------------------
(* Editing between design-rule checks                                      *)

\* A resistor, a trace between its pins and a pad that rests on the middle
\* of the trace, made in that order before the session; the check flags the
\* trace
AdvisoryBoard ==
    [components |-> <<[id |-> CompIdAt(0), footprintId |-> "resistor",
                       position |-> getCompPosForPinTarget("resistor", Vec(0, 0), 0),
                       rotation |-> 0],
                      [id |-> CompIdAt(2), footprintId |-> "pin",
                       position |-> getCompPosForPinTarget("pin", Vec(508, 0), 0),
                       rotation |-> 0]>>,
     traces |-> <<NewTrace(TraceIdAt(1), PinId(CompIdAt(0), "1"),
                           PinId(CompIdAt(0), "2"), RouteWidth, RouteColor)>>]

\* Where the pointer is pressed: the first pin of the resistor, a point
\* beside the middle of the trace and within reach of the pin of the pad, a
\* point of the body of the resistor away from its pins and its trace, and a
\* point of the empty board
AdvisoryWorlds == {Vec(0, 0), Vec(508, 40), Vec(700, 200), Vec(300, -300)}

\* Where the pressed pointer moves to: the second and third of those points;
\* the rectangle from the fourth to the third holds the pad alone
AdvisoryTargets == {Vec(508, 40), Vec(700, 200)}

InitAdvisory ==
    /\ components = AdvisoryBoard.components
    /\ traces = AdvisoryBoard.traces
    /\ selectedIds = {}
    /\ tool = "select"
    /\ pendingFootprintId = <<>>
    /\ viewport = [x |-> 0, y |-> 0, scale |-> InitialScale]
    /\ dragRef = NoDrag
    /\ routingPreview = <<>>
    /\ marquee = <<>>
    /\ invalidTraceIds = {}
    /\ violationMarkers = <<>>
    /\ isDrcRunning = FALSE
    /\ lastCheckResult = "none"
    /\ drcTimers = 1
    /\ flagTimers = 0
    /\ now = 3
    /\ pointer = <<>>
    /\ burst = 0
    /\ gesture = <<>>
    /\ lastSplit = <<>>
    /\ last = <<>>

\* Placing, moving, rotating, routing, splitting and deleting, with checks by
\* the timer and by the button in between, each once the running flag of the
\* check before it has been reset
NextAdvisory ==
    \/ SelectFootprint("pin") /\ WithinLayout
    \/ \E w \in AdvisoryWorlds : PointerDown(w, 0, FALSE) /\ WithinLayout
    \/ \E w \in AdvisoryTargets : PointerMove(w) /\ WithinLayout
    \/ PointerUp /\ WithinLayout
    \/ RotateSelected /\ WithinLayout
    \/ DeleteSelected /\ WithinLayout
    \/ DrcTimerExpires /\ flagTimers = 0
    \/ RunDrcButton /\ flagTimers = 0
    \/ DrcFlagExpires

SpecAdvisory == InitAdvisory /\ [][NextAdvisory]_vars

---------------------------------------------------------------------------
(* Clicks                                                                  *)

\* A point beside the middle of the trace of the resistor, a point closer
\* to it than the split threshold, a point of the body of the resistor and
\* a point of the empty board
ClickWorlds == {Vec(508, 40), Vec(540, 60), Vec(508, 200), Vec(508, 600)}

\* Presses, with and without the Shift key, small and large moves of the
\* pressed pointer, and releases, on a resistor with or without a trace
NextClick ==
    \/ \E w \in ClickWorlds, shiftKey \in BOOLEAN :
          PointerDown(w, 0, shiftKey) /\ WithinLayout
    \/ \E w \in ClickWorlds : PointerMove(w) /\ WithinLayout
    \/ PointerUp /\ WithinLayout

SpecClick == InitLayout /\ [][NextClick]_vars

---------------------------------------------------------------------------
(* Control handles at a junction                                           *)

\* A resistor with its first pin at the origin and a junction at (50.8,
\* 50.8), joined by the first segment of a split trace, alone, with the
\* second segment from the junction to the second pin, or with that and a
\* trace routed from the first pin to the junction afterwards
HandleBoards ==
    LET R == CompIdAt(1)
        J == JunctionIdAt(3)
        T1 == NewTrace(SegIdAt(3, "1"), PinId(R, "1"), PinId(J, "p1"),
                       RouteWidth, RouteColor)
        T2 == NewTrace(SegIdAt(3, "2"), PinId(J, "p1"), PinId(R, "2"),
                       RouteWidth, RouteColor)
        T3 == NewTrace(TraceIdAt(4), PinId(R, "1"), PinId(J, "p1"),
                       RouteWidth, RouteColor)
    IN  {[components |-> <<[id |-> R, footprintId |-> "resistor",
                            position |-> getCompPosForPinTarget("resistor", Vec(0, 0), 0),
                            rotation |-> 0],
                           JunctionAt(Vec(508, 508), 3)>>,
          traces |-> trcs] : trcs \in {<<T1>>, <<T1, T2>>, <<T1, T2, T3>>}}

\* Where the pointer is pressed: the middle of the traces from the first
\* pin to the junction and of the trace from the junction to the second
\* pin, and the default places of the handles at the first pin and at the
\* junction
HandleSites ==
    {Vec(254, 254), Vec(762, 254), Vec(127, 0), Vec(381, 508), Vec(635, 508)}

\* Where a held handle is pulled to, ten units below the default place of a
\* handle at the junction and within reach of it
HandlePulls == {Vec(381, 608)}

InitHandles ==
    /\ \E b \in HandleBoards : components = b.components /\ traces = b.traces
    /\ selectedIds = {}
    /\ tool = "select"
    /\ pendingFootprintId = <<>>
    /\ viewport = [x |-> 0, y |-> 0, scale |-> InitialScale]
    /\ dragRef = NoDrag
    /\ routingPreview = <<>>
    /\ marquee = <<>>
    /\ invalidTraceIds = {}
    /\ violationMarkers = <<>>
    /\ isDrcRunning = FALSE
    /\ lastCheckResult = "none"
    /\ drcTimers = 1
    /\ flagTimers = 0
    /\ now = 5
    /\ pointer = <<>>
    /\ burst = 0
    /\ gesture = <<>>
    /\ lastSplit = <<>>
    /\ last = <<>>

\* A step that adds nothing to the board and moves no component
ShapesOnly ==
    /\ now' = now
    /\ components' = components
    /\ Len(traces') = Len(traces)

\* Clicks on the traces and pulls at their handles
NextHandles ==
    \/ \E w \in HandleSites \cup HandlePulls : PointerDown(w, 0, FALSE) /\ ShapesOnly
    \/ \E w \in HandlePulls : PointerMove(w) /\ ShapesOnly
    \/ PointerUp /\ ShapesOnly

SpecHandles == InitHandles /\ [][NextHandles]_vars

---------------------------------------------------------------------------
(* Presses with every tool, button and key                                 *)

\* Where the pointer is pressed on the boards of a resistor and a junction:
\* the middle of the trace from the first pin to the junction, the default
\* places of the handles of that trace, the first pin, the pin of the
\* junction, a point of the body of the resistor away from its pins and
\* traces, and a point of the empty board
PressSites ==
    {Vec(254, 254), Vec(127, 0), Vec(381, 508), Vec(0, 0), Vec(508, 508),
     Vec(508, -200), Vec(1500, 900)}

\* A step that adds at most one component to those of the board and no trace
PressOnly ==
    /\ Len(components') <= MaxComps + 1
    /\ pendingFootprintId' # <<>> => Len(components') <= MaxComps
    /\ Len(traces') = Len(traces)

\* Presses and releases without a move in between, with either button, with
\* and without the Shift key, with either tool and with or without a pad to
\* place
NextPress ==
    \/ SelectFootprint("pin") /\ PressOnly
    \/ \E t \in {"select", "pan"} : SetTool(t) /\ PressOnly
    \/ \E w \in PressSites, button \in {0, 1}, shiftKey \in BOOLEAN :
          PointerDown(w, button, shiftKey) /\ PressOnly
    \/ PointerUp /\ PressOnly

SpecPress == InitHandles /\ [][NextPress]_vars

---------------------------------------------------------------------------
(* Panning and hovering                                                    *)

\* A step that stamps no id, leaves the moved components on the sites and
\* the view within MaxPan of its first place in either direction
PanFrame ==
    /\ now' = now
    /\ components' = components \/ OnSites(components')
    /\ Abs(viewport'.x) <= MaxPan
    /\ Abs(viewport'.y) <= MaxPan
    /\ traces' = traces \/ \A i \in 1..Len(traces') :
          OffsetWithin(traces'[i].c1Offset) /\ OffsetWithin(traces'[i].c2Offset)

\* Where the pointer is: the first pin of the resistor, the middle of the
\* trace from it to the junction, a point of the body of the resistor away
\* from its pins and traces, and a point of the empty board
PanSites == {Vec(0, 0), Vec(254, 254), Vec(508, -200), Vec(1500, 900)}

\* Presses with either tool and button, moves of the pressed pointer,
\* releases, and moves of the pointer with no button held
NextPan ==
    \/ \E t \in {"select", "pan"} : SetTool(t) /\ PanFrame
    \/ \E w \in PanSites, button \in {0, 1} :
          PointerDown(w, button, FALSE) /\ PanFrame
    \/ \E w \in PanSites : PointerMove(w) /\ PanFrame
    \/ PointerUp /\ PanFrame
    \/ \E w \in PanSites : PointerHover(w) /\ PanFrame

SpecPan == InitHandles /\ [][NextPan]_vars

---------------------------------------------------------------------------
(* Checks of boards with pads on a trace                                   *)

\* Two pads four pitches apart with a trace between them, and with it: two
\* pads across that trace with a trace of their own; a resistor with its two
\* pads on the two pads; a pad on the first pad with a trace of its own to a
\* pad away from the others; and the board of traces on top of each other
MarkerBoards ==
    LET A == PadAt(1, Vec(0, 0))
        B == PadAt(2, Vec(1016, 0))
        AB == TraceBetween(5, 1, 2)
        R == [id |-> CompIdAt(3), footprintId |-> "resistor",
              position |-> getCompPosForPinTarget("resistor", Vec(0, 0), 0),
              rotation |-> 0]
    IN  {[components |-> <<A, B, PadAt(3, Vec(508, -508)), PadAt(4, Vec(508, 508))>>,
          traces |-> <<AB, TraceBetween(6, 3, 4)>>],
         [components |-> <<A, B, R>>, traces |-> <<AB>>],
         [components |-> <<A, B, PadAt(3, Vec(0, 0)), PadAt(4, Vec(508, 508))>>,
          traces |-> <<AB, TraceBetween(6, 3, 4)>>],
         CrowdedBoard(MaxCrowd)}

\* Presses on the trace between the first two pads, on the body of a pad at
\* the origin and on the body of a pad across the trace
MarkerWorlds == {Vec(254, 0), Vec(-120, -120), Vec(508, 600)}

InitMarkers ==
    /\ \E b \in MarkerBoards : components = b.components /\ traces = b.traces
    /\ selectedIds = {}
    /\ tool = "select"
    /\ pendingFootprintId = <<>>
    /\ viewport = [x |-> 0, y |-> 0, scale |-> InitialScale]
    /\ dragRef = NoDrag
    /\ routingPreview = <<>>
    /\ marquee = <<>>
    /\ invalidTraceIds = {}
    /\ violationMarkers = <<>>
    /\ isDrcRunning = FALSE
    /\ lastCheckResult = "none"
    /\ drcTimers = 1
    /\ flagTimers = 0
    /\ now = 2 * MaxCrowd + MaxCrowd + 1
    /\ pointer = <<>>
    /\ burst = 0
    /\ gesture = <<>>
    /\ lastSplit = <<>>
    /\ last = <<>>

\* Checks by the timer and by the button, between clicks and deletes
NextMarkers ==
    \/ DrcTimerExpires
    \/ RunDrcButton
    \/ DrcFlagExpires
    \/ \E w \in MarkerWorlds : PointerDown(w, 0, FALSE)
    \/ PointerUp
    \/ DeleteSelected

SpecMarkers == InitMarkers /\ [][NextMarkers]_vars

---------------------------------------------------------------------------
(* Checks of boards with traces that lead nowhere                          *)

\* runDRC reads the traces and the components it is given. The boards here
\* are inputs that no handler of the editor produces: a trace to a pin of a
\* component that is not on the board, a trace to a pin of a component whose
\* footprint is not in the library, and such a component, among pads and
\* traces that collide
DefensiveBoards ==
    LET A == PadAt(1, Vec(0, 0))
        B == PadAt(2, Vec(1016, 0))
        C == PadAt(3, Vec(0, 0))
        E == PadAt(4, Vec(508, 508))
        U == [id |-> CompIdAt(5), footprintId |-> "capacitor",
              position |-> Vec(381, -127), rotation |-> 0]
        AB == TraceBetween(6, 1, 2)
        CE == TraceBetween(7, 3, 4)
        toNone == TraceBetween(8, 1, 9)
        toU == TraceBetween(9, 5, 2)
    IN  {[components |-> <<A, B, C, E, U>>, traces |-> trcs] :
            trcs \in {<<toNone>>, <<AB, toNone, CE>>, <<toU, AB>>,
                      <<toNone, toU, CE, AB>>}}

InitDefensive ==
    /\ \E b \in DefensiveBoards : components = b.components /\ traces = b.traces
    /\ selectedIds = {}
    /\ tool = "select"
    /\ pendingFootprintId = <<>>
    /\ viewport = [x |-> 0, y |-> 0, scale |-> InitialScale]
    /\ dragRef = NoDrag
    /\ routingPreview = <<>>
    /\ marquee = <<>>
    /\ invalidTraceIds = {}
    /\ violationMarkers = <<>>
    /\ isDrcRunning = FALSE
    /\ lastCheckResult = "none"
    /\ drcTimers = 1
    /\ flagTimers = 0
    /\ now = 2 * MaxCrowd + MaxCrowd + 1
    /\ pointer = <<>>
    /\ burst = 0
    /\ gesture = <<>>
    /\ lastSplit = <<>>
    /\ last = <<>>

\* Checks by the timer and by the button, between clicks and deletes
NextDefensive ==
    \/ DrcTimerExpires
    \/ RunDrcButton
    \/ DrcFlagExpires
    \/ \E w \in MarkerWorlds : PointerDown(w, 0, FALSE)
    \/ PointerUp
    \/ DeleteSelected

SpecDefensive == InitDefensive /\ [][NextDefensive]_vars

---------------------------------------------------------------------------
(* Vocabulary of the properties                                            *)

PinIdsOf(comp) == {PinsOf(comp)[k].id : k \in 1..Len(PinsOf(comp))}
PinIds(comps) == UNION {PinIdsOf(comps[i]) : i \in 1..Len(comps)}
IsJunction(comp) == comp.footprintId = "PIN"

\* The trace t ends on a pin of the component
Touches(t, comp) == t.fromPinId \in PinIdsOf(comp) \/ t.toPinId \in PinIdsOf(comp)

\* The positions in the trace list of the traces attached to the component
Attached(comp) == {i \in 1..Len(traces) : Touches(traces[i], comp)}

\* The sequence without the elements whose id is in ids
Without(seq, ids) == SelectSeq(seq, LAMBDA x : x.id \notin ids)

Least(S) == CHOOSE i \in S : \A j \in S : i <= j
Greatest(S) == CHOOSE i \in S : \A j \in S : i >= j

DistSq(a, b) == (a.x - b.x) * (a.x - b.x) + (a.y - b.y) * (a.y - b.y)

\* p is the grid point nearest to w
Nearest(w, p) ==
    /\ p.x % SNAP_SIZE = 0 /\ 2 * Abs(p.x - w.x) <= SNAP_SIZE
    /\ p.y % SNAP_SIZE = 0 /\ 2 * Abs(p.y - w.y) <= SNAP_SIZE

\* The trace joins the two pins with default curvature
Joins(t, from, to) ==
    t.fromPinId = from /\ t.toPinId = to /\ t.c1Offset = <<>> /\ t.c2Offset = <<>>

\* The steps of a gesture, read off the pointer
DownStep == pointer = <<>> /\ pointer' # <<>>
MoveStep == pointer # <<>> /\ pointer' # <<>>
UpStep == pointer # <<>> /\ pointer' = <<>>

\* The step appends one junction whose pin is at the grid point nearest to w
\* and changes no other component
AddsJunctionAt(w) ==
    LET m == Len(components')
    IN  /\ m = Len(components) + 1
        /\ SubSeq(components', 1, m - 1) = components
        /\ IsJunction(components'[m])
        /\ Len(PinsOf(components'[m])) = 1
        /\ Nearest(w, PinsOf(components'[m])[1].globalPos)

\* The merge case of the delete operation: the selection is one junction
\* with exactly two traces attached
MergeCase ==
    \E i \in 1..Len(components) :
        /\ selectedIds = {components[i].id}
        /\ IsJunction(components[i])
        /\ Cardinality(Attached(components[i])) = 2

\* The route gesture in progress and where the pointer is
Routing == dragRef # <<>> /\ dragRef[1].type = "route"
Release == getScreenToWorld(pointer[1])

\* The positions in allPins of the pins other than the source within the pin
\* hit radius of the release point
Targets ==
    {i \in 1..Len(allPins) :
        /\ allPins[i].id # dragRef[1].id
        /\ DistSq(allPins[i].globalPos, Release) < PinUpRadius * PinUpRadius}

\* No pin at all is within the pin hit radius of the release point
OnNoPin ==
    \A i \in 1..Len(allPins) :
        DistSq(allPins[i].globalPos, Release) >= PinUpRadius * PinUpRadius

\* A sampled point of some trace is within the trace hit radius of the
\* release point
NearTrace ==
    \E i \in 1..Len(traces) :
        LET p1 == FindPin(traces[i].fromPinId)
            p2 == FindPin(traces[i].toPinId)
        IN  /\ p1 # <<>>
            /\ p2 # <<>>
            /\ \E k \in 0..HitSamples :
                  DistSq(Release, HitPoints(p1[1].globalPos, p2[1].globalPos,
                                            traces[i])[k])
                     < TraceUpRadius * TraceUpRadius

\* The step appends one routed trace from S to T and changes no other trace
Routed(S, T) ==
    LET n == Len(traces')
    IN  /\ n = Len(traces) + 1
        /\ SubSeq(traces', 1, n - 1) = traces
        /\ Joins(traces'[n], S, T)
        /\ traces'[n].width = RouteWidth

---------------------------------------------------------------------------
(* Properties                                                              *)

\* C1: in every reachable state the fromPinId and the toPinId of every trace
\* are ids of pins of components in the component list.
ReferentialIntegrity ==
    \A i \in 1..Len(traces) :
        /\ traces[i].fromPinId \in PinIds(components)
        /\ traces[i].toPinId \in PinIds(components)

\* A delete has just removed something and left a merged trace on the board
ReferentialIntegrityWitness ==
    /\ last # <<>>
    /\ last[1] = "deleteSelected"
    /\ last[2].components = 1
    /\ \E i \in 1..Len(traces) : traces[i].id = MergedIdAt(now - 1)
    /\ components # <<>>

\* C2: in every reachable state every trace joins two different pins, the
\* traces made by a merge-on-delete included.
NoSelfLoop ==
    \A i \in 1..Len(traces) : traces[i].fromPinId # traces[i].toPinId

\* C3: a delete outside the merge case leaves exactly the components that
\* are not selected and exactly the traces that are neither selected nor
\* attached to a selected component, and empties the selection.
CascadeDeleteExact ==
    [][(DeleteSelected /\ ~MergeCase) =>
        /\ components' = Without(components, selectedIds)
        /\ traces' = SelectSeq(traces, LAMBDA t :
                        /\ t.id \notin selectedIds
                        /\ \A i \in 1..Len(components) :
                              components[i].id \in selectedIds
                                 => ~Touches(t, components[i]))
        /\ selectedIds' = {}]_vars

\* A delete outside the merge case has just removed a component and a trace,
\* and a component and a trace are left
CascadeDeleteWitness ==
    /\ last # <<>>
    /\ last[1] = "deleteSelected"
    /\ last[2].components >= 1
    /\ last[2].traces >= 1
    /\ selectedIds = {}
    /\ components # <<>>
    /\ traces # <<>>

\* C4: a delete in the merge case removes the junction and its two traces
\* and appends one trace between their other pins, as wide as the wider of
\* the two, of the colour of the first, with no control offsets; nothing
\* else changes.
MergeOnDelete ==
    [][(DeleteSelected /\ MergeCase) =>
        \E i \in 1..Len(components) :
            /\ selectedIds = {components[i].id}
            /\ LET j == components[i]
                   t1 == traces[Least(Attached(j))]
                   t2 == traces[Greatest(Attached(j))]
                   Other(t) == IF t.fromPinId \in PinIdsOf(j)
                               THEN t.toPinId ELSE t.fromPinId
                   n == Len(traces')
               IN  /\ components' = Without(components, {j.id})
                   /\ n = Len(traces) - 1
                   /\ SubSeq(traces', 1, n - 1) = Without(traces, {t1.id, t2.id})
                   /\ Joins(traces'[n], Other(t1), Other(t2))
                   /\ traces'[n].width =
                         (IF t1.width >= t2.width THEN t1.width ELSE t2.width)
                   /\ traces'[n].color = t1.color]_vars

\* A merge has just replaced two traces by one of the greater width, which
\* is selected
MergeOnDeleteWitness ==
    /\ last # <<>>
    /\ last[1] = "deleteSelected"
    /\ last[2].components = 1
    /\ last[2].traces = 2
    /\ traces # <<>>
    /\ traces[Len(traces)].id = MergedIdAt(now - 1)
    /\ selectedIds = {MergedIdAt(now - 1)}
    /\ traces[Len(traces)].width = 12

\* The junction of the last drag-split is selected alone, the two segments
\* of that split, and no other trace, are attached to it, and no component
\* but the junction has come or gone since the split
SplitIntact ==
    /\ lastSplit # <<>>
    /\ selectedIds = {lastSplit[1].junction}
    /\ IdsOf(Without(components, {lastSplit[1].junction}))
          = lastSplit[1].componentIds
    /\ \E i \in 1..Len(components) :
          /\ components[i].id = lastSplit[1].junction
          /\ {traces[k].id : k \in Attached(components[i])}
                = {lastSplit[1].seg1, lastSplit[1].seg2}

\* C5: deleting the junction of a drag-split of a trace from X to Y while
\* exactly the two segments are attached, no component having been added or
\* removed in between, leaves the components of before the split and, in
\* place of the segments, one trace from X to Y as wide as the wider segment.
SplitMergeInverse ==
    [][(DeleteSelected /\ SplitIntact) =>
        LET sp == lastSplit[1]
            s1 == Find(traces, LAMBDA t : t.id = sp.seg1)[1]
            s2 == Find(traces, LAMBDA t : t.id = sp.seg2)[1]
            n == Len(traces')
        IN  /\ IdsOf(components') = sp.componentIds
            /\ components' = Without(components, {sp.junction})
            /\ n = Len(traces) - 1
            /\ SubSeq(traces', 1, n - 1) = Without(traces, {sp.seg1, sp.seg2})
            /\ traces'[n].fromPinId = sp.fromPinId
            /\ traces'[n].toPinId = sp.toPinId
            /\ traces'[n].width =
                  (IF s1.width >= s2.width THEN s1.width ELSE s2.width)]_vars

\* The junction of a drag-split has just been deleted, leaving a trace
\* between the ends of the split trace that is wider than a routed trace
SplitMergeInverseWitness ==
    /\ last # <<>>
    /\ last[1] = "deleteSelected"
    /\ last[2].split # <<>>
    /\ last[2].traces = 2
    /\ traces # <<>>
    /\ traces[Len(traces)].fromPinId = last[2].split[1].fromPinId
    /\ traces[Len(traces)].toPinId = last[2].split[1].toPinId
    /\ traces[Len(traces)].id = MergedIdAt(now - 1)
    /\ traces[Len(traces)].width > RouteWidth
    /\ IdsOf(components) = last[2].split[1].componentIds

\* What a drag-split of the pressed trace at the world point w does
SplitEffect(w) ==
    LET orig == Find(traces, LAMBDA t : t.id = gesture[1].id)
        n == Len(traces')
        jp == PinsOf(components'[Len(components')])[1].id
    IN  /\ orig # <<>>
        /\ AddsJunctionAt(w)
        /\ n = Len(traces) + 1
        /\ SubSeq(traces', 1, n - 2) = Without(traces, {orig[1].id})
        /\ Joins(traces'[n - 1], orig[1].fromPinId, jp)
        /\ Joins(traces'[n], jp, orig[1].toPinId)
        /\ traces'[n - 1].width = orig[1].width
        /\ traces'[n].width = orig[1].width
        /\ traces'[n - 1].color = orig[1].color
        /\ traces'[n].color = orig[1].color

\* The pressed pointer moves further than the threshold from where the
\* gesture began on a trace that has not been split in this gesture
FirstFarMove ==
    /\ MoveStep
    /\ gesture # <<>>
    /\ gesture[1].splits = 0
    /\ DistSq(getScreenToWorld(pointer'[1]), gesture[1].start)
          > SplitThreshold * SplitThreshold

\* C6: after a press that the handler resolved to a trace without the Shift
\* key, the first move further than the threshold from the start of the
\* gesture appends one junction at the grid point nearest to the pointer
\* and replaces the trace by two segments through the junction's pin, of the
\* original's width and colour and with no control offsets; a gesture splits
\* at most once.
DragSplit ==
    /\ [][(FirstFarMove /\ ~gesture[1].shiftKey)
             => SplitEffect(getScreenToWorld(pointer'[1]))]_vars
    /\ [](gesture # <<>> => gesture[1].splits <= 1)

\* C6 as stated: every press resolved to a trace, whatever the modifier keys,
\* splits the trace on the first move further than the threshold.
DragSplitAnyPress ==
    [][FirstFarMove => SplitEffect(getScreenToWorld(pointer'[1]))]_vars

\* The gesture in progress has split the trace it was pressed on
DragSplitWitness ==
    /\ last = <<"onPointerMove">>
    /\ gesture # <<>>
    /\ ~gesture[1].shiftKey
    /\ gesture[1].splits = 1
    /\ Len(traces) = 2

\* C7: a route gesture from pin S that has moved and is released within the
\* pin hit radius of a pin other than S appends one trace of width 8 with no
\* control offsets from S to the first such pin in component order, and
\* changes no component and no other trace.
RouteToPin ==
    [][(UpStep /\ Routing /\ routingPreview # <<>> /\ Targets # {}) =>
        /\ components' = components
        /\ Routed(dragRef[1].id, allPins[Least(Targets)].id)]_vars

\* C7 as stated: every route gesture released within the pin hit radius of a
\* pin T other than S appends one trace from S to such a pin.
RouteToPinAnyRelease ==
    [][(UpStep /\ Routing /\ Targets # {}) =>
        /\ components' = components
        /\ \E i \in Targets : Routed(dragRef[1].id, allPins[i].id)]_vars

\* A route gesture has just ended by appending a trace and no junction
RouteToPinWitness ==
    /\ last = <<"onPointerUp">>
    /\ traces # <<>>
    /\ traces[Len(traces)].id = TraceIdAt(now - 1)
    /\ \A i \in 1..Len(components) : components[i].id # JunctionIdAt(now - 1)

\* C8: a route gesture from pin S released on no pin and near a sampled
\* point of a trace appends one junction whose pin is at the grid point
\* nearest to the release point and one trace from S to that pin; every
\* existing trace and component is left as it was.
RouteAutoJunction ==
    [][(UpStep /\ Routing /\ OnNoPin /\ NearTrace) =>
        /\ AddsJunctionAt(Release)
        /\ Routed(dragRef[1].id, PinsOf(components'[Len(components')])[1].id)]_vars

\* A route gesture has just ended by appending a junction and a trace to it
RouteAutoJunctionWitness ==
    /\ last = <<"onPointerUp">>
    /\ traces # <<>>
    /\ components # <<>>
    /\ traces[Len(traces)].id = TraceIdAt(now - 1)
    /\ components[Len(components)].id = JunctionIdAt(now - 1)
    /\ traces[Len(traces)].toPinId \in PinIdsOf(components[Len(components)])

\* C9: no step that leaves a route gesture in progress changes a component
\* or a trace, and a route gesture released where no pin other than the
\* source is within the pin hit radius and no trace within the trace hit
\* radius changes neither and ends the gesture.
RouteCancelNoOp ==
    [][/\ (dragRef' # <<>> /\ dragRef'[1].type = "route")
            => UNCHANGED <<components, traces>>
       /\ (UpStep /\ Routing /\ Targets = {} /\ ~NearTrace)
            => /\ UNCHANGED <<components, traces>>
               /\ dragRef' = <<>>
               /\ routingPreview' = <<>>]_vars

\* A route gesture has just ended on a board that has no trace
RouteCancelWitness ==
    /\ last = <<"onPointerUp">>
    /\ traces = <<>>
    /\ components # <<>>
    /\ dragRef = <<>>

DragModes == {"pan", "move", "route", "handle", "marquee", "potential_split"}

\* C10: there is never more than one drag descriptor and its mode is one of
\* the six; a descriptor appears or changes only at a pointer-down or within
\* a gesture that keeps its mode or turns potential_split into move; with
\* the pointer up (so after every pointer-up) the descriptor, the routing
\* preview and the marquee are absent.
SingleActiveDrag ==
    /\ [](dragRef = <<>> \/ (Len(dragRef) = 1 /\ dragRef[1].type \in DragModes))
    /\ [](pointer = <<>> =>
            dragRef = <<>> /\ routingPreview = <<>> /\ marquee = <<>>)
    /\ [][(dragRef' # <<>> /\ dragRef' # dragRef) =>
            \/ DownStep /\ dragRef = <<>>
            \/ /\ MoveStep
               /\ dragRef # <<>>
               /\ \/ dragRef'[1].type = dragRef[1].type
                  \/ dragRef[1].type = "potential_split" /\ dragRef'[1].type = "move"]_vars
    /\ [][UpStep =>
            dragRef' = <<>> /\ routingPreview' = <<>> /\ marquee' = <<>>]_vars

\* A gesture that began as potential_split is a move of the junction it made
SingleActiveDragWitness ==
    /\ dragRef # <<>>
    /\ dragRef[1].type = "move"
    /\ gesture # <<>>
    /\ gesture[1].splits = 1

---------------------------------------------------------------------------
(* Design-rule checks                                                      *)

Mutation == components' # components \/ traces' # traces

TimerExpiry == drcTimers' < drcTimers

\* A step in which runDRC runs, by the timer or by the button
PassStep == flagTimers' > flagTimers

JustChecked == last # <<>> /\ last[1] = "runDRC"

\* The timer of the effect has just run the check
TimerPassed == JustChecked /\ drcTimers = 0

Midpoint(a, b) == Vec((a.x + b.x) \div 2, (a.y + b.y) \div 2)

\* The pads of the board: pin id, component and position
Pads ==
    LET pins == allPins
    IN  {[id |-> pins[k].id, comp |-> pins[k].componentId,
          pos |-> pins[k].globalPos] : k \in 1..Len(pins)}

\* The traces both of whose ends are pads of the board, each with its place
\* in the list, its ends and the 15 points at which the check samples it
Sampled(pads) ==
    {[i |-> i, ends |-> {traces[i].fromPinId, traces[i].toPinId},
      pts |-> LET p1 == CHOOSE p \in pads : p.id = traces[i].fromPinId
                  p2 == CHOOSE p \in pads : p.id = traces[i].toPinId
                  pts == DrcPoints(p1.pos, p2.pos, traces[i])
              IN  {pts[k] : k \in 0..DrcSamples}] :
        i \in {k \in 1..Len(traces) :
                  /\ \E p \in pads : p.id = traces[k].fromPinId
                  /\ \E p \in pads : p.id = traces[k].toPinId}}

\* The pairs of points of A and B closer than the clearance
ClosePairs(A, B) == {pq \in A \X B : TooClose(pq[1], pq[2])}

\* The pairs of sampled traces that share no end pin and come closer than
\* the clearance
Clashing(S) ==
    {ab \in S \X S :
        /\ ab[1].i # ab[2].i
        /\ ab[1].ends \cap ab[2].ends = {}
        /\ \E p \in ab[1].pts, q \in ab[2].pts : TooClose(p, q)}

\* The points of sampled trace a closer than the clearance to pad p
PadPoints(a, p) == {pt \in a.pts : TooClose(pt, p.pos)}

\* The sampled traces with a pad that is no end of theirs closer than the
\* clearance
PadClashing(S, pads) ==
    {ap \in S \X pads :
        ap[2].id \notin ap[1].ends /\ \E pt \in ap[1].pts : TooClose(pt, ap[2].pos)}

\* The markers that the pairs in clash and the pads in padClash can give
MarkersOf(clash, padClash) ==
    UNION {{Midpoint(pq[1], pq[2]) : pq \in ClosePairs(ab[1].pts, ab[2].pts)} :
              ab \in clash}
    \cup UNION {PadPoints(ap[1], ap[2]) : ap \in padClash}

\* C11: a step that changes the components or the traces changes none of the
\* results of the check and leaves exactly one timer of the effect pending;
\* there is never more than one; the step in which the timer expires leaves
\* none pending and sets the results to those of runDRC on the board as it
\* is then, which that step does not change.
DebounceCoalescing ==
    /\ [](drcTimers \in {0, 1})
    /\ [][Mutation =>
            /\ UNCHANGED <<invalidTraceIds, violationMarkers, lastCheckResult,
                           isDrcRunning>>
            /\ drcTimers' = 1]_vars
    /\ [][TimerExpiry =>
            LET r == runDRC
            IN  /\ UNCHANGED <<components, traces>>
                /\ drcTimers' = 0
                /\ invalidTraceIds' = r.invalid
                /\ violationMarkers' = r.markers
                /\ lastCheckResult' = r.status]_vars

\* The timer has just expired after the effect ran at least twice since the
\* last expiry
DebounceCoalescingWitness ==
    /\ last # <<>>
    /\ last[1] = "runDRC"
    /\ last[2].burst >= 2
    /\ drcTimers = 0
    /\ invalidTraceIds = runDRC.invalid

\* C12: after a check, a trace is invalid only if a trace sharing no end pin
\* with it comes closer than the clearance or a pad that is no end of it
\* does, and every marker is the midpoint of two close samples of such a pair
\* or a sample close to such a pad: a pair of traces that share an end pin
\* makes neither invalid and gives no marker.
EndpointExclusion ==
    [][PassStep =>
        LET S == Sampled(Pads)
            clash == Clashing(S)
            padClash == PadClashing(S, Pads)
            allowed == MarkersOf(clash, padClash)
        IN  /\ \A i \in 1..Len(traces) :
                  traces[i].id \in invalidTraceIds' =>
                      \/ \E ab \in clash : ab[1].i = i
                      \/ \E ap \in padClash : ap[1].i = i
            /\ \A k \in 1..Len(violationMarkers') :
                  violationMarkers'[k] \in allowed]_vars

\* A check has just passed two traces that share an end pin and have samples
\* closer than the clearance
EndpointExclusionWitness ==
    /\ JustChecked
    /\ Len(traces) = 2
    /\ \E a, b \in Sampled(Pads) :
          /\ a.i = 1 /\ b.i = 2
          /\ a.ends \cap b.ends # {}
          /\ ClosePairs(a.pts, b.pts) # {}
    /\ invalidTraceIds = {}
    /\ violationMarkers = <<>>
    /\ lastCheckResult = "pass"

\* C13: after a check, any two traces with resolvable ends that share no end
\* pin and have two samples closer than the clearance are both invalid, the
\* marker list is not empty, and unless the list is full it holds the
\* midpoint of two close samples of the pair.
ClearanceDetection ==
    [][PassStep =>
        \A ab \in Clashing(Sampled(Pads)) :
            /\ traces[ab[1].i].id \in invalidTraceIds'
            /\ traces[ab[2].i].id \in invalidTraceIds'
            /\ violationMarkers' # <<>>
            /\ \/ Len(violationMarkers') >= MarkerCap
               \/ \E k \in 1..Len(violationMarkers') :
                     \E pq \in ClosePairs(ab[1].pts, ab[2].pts) :
                         violationMarkers'[k] = Midpoint(pq[1], pq[2])]_vars

\* A check has just found two traces too close that share no end pin, on a
\* board where no trace is close to a pad that is not its end
ClearanceDetectionWitness ==
    /\ JustChecked
    /\ Len(traces) = 2
    /\ \E ab \in Clashing(Sampled(Pads)) : ab[1].i = 1 /\ ab[2].i = 2
    /\ PadClashing(Sampled(Pads), Pads) = {}
    /\ invalidTraceIds = {traces[1].id, traces[2].id}
    /\ Len(violationMarkers) = 1
    /\ lastCheckResult = "fail"

\* The number of violations a check finds: pairs of traces, and pairs of a
\* component and a trace
ViolationCount ==
    LET S == Sampled(Pads)
    IN  Cardinality({ab \in Clashing(S) : ab[1].i < ab[2].i})
        + Cardinality({<<ap[2].comp, ap[1].i>> : ap \in PadClashing(S, Pads)})

\* C14: the marker list never has more than 30 entries, whatever the number
\* of violations between traces and between traces and pads.
MarkerCapRespected == Len(violationMarkers) <= MarkerCap

\* A check has just run on a board with more violations than the cap
MarkerCapWitness ==
    /\ JustChecked
    /\ Len(violationMarkers) = MarkerCap
    /\ ViolationCount > MarkerCap

\* C15: the status is 'none' at the start and changes only in a check; after
\* a check it is 'fail' if the invalid set is not empty, else 'pass' if there
\* is a trace, else 'none'.
BoardStatus ==
    /\ lastCheckResult = "none"
    /\ [][lastCheckResult' # lastCheckResult => PassStep]_vars
    /\ [][PassStep =>
            lastCheckResult' = IF invalidTraceIds' # {} THEN "fail"
                               ELSE IF Len(traces') > 0 THEN "pass"
                               ELSE "none"]_vars

\* A check has just found no trace left on a board changed since the last
\* expiry of the timer
BoardStatusWitness ==
    /\ JustChecked
    /\ last[2].burst >= 1
    /\ traces = <<>>
    /\ components # <<>>
    /\ lastCheckResult = "none"

---------------------------------------------------------------------------
(* Placing, moving and rotating                                            *)

\* The world position of the first-listed pin of the footprint of comp
Anchor(comp) == PinsOf(comp)[1].globalPos

OnGrid(p) ==
    \E kx, ky \in -(MaxSite \div SNAP_SIZE + 1)..(MaxSite \div SNAP_SIZE + 1) :
        p.x = kx * SNAP_SIZE /\ p.y = ky * SNAP_SIZE

\* The components of the next state that the step adds or puts elsewhere
Affected ==
    {i \in 1..Len(components') :
        \A k \in 1..Len(components) :
            components[k].id = components'[i].id
                => components[k].position # components'[i].position}

\* C16: the anchor pin of every component that a step adds (a placement, a
\* junction made by a split or by a route release) or moves is on a grid
\* point afterwards, whatever the rotation of the component.
Snapping ==
    [][\A i \in Affected : OnGrid(Anchor(components'[i]))]_vars

\* A rotated resistor is being moved and rests where it did not before the
\* press, and a junction is on the board
SnappingWitness ==
    /\ dragRef # <<>>
    /\ dragRef[1].type = "move"
    /\ dragRef[1].hasMoved
    /\ \E i, j \in 1..Len(components) :
          /\ components[i].id = dragRef[1].id
          /\ components[i].footprintId = "resistor"
          /\ components[i].rotation = 90
          /\ OnGrid(Anchor(components[i]))
          /\ IsJunction(components[j])

\* C17: a press with a footprint pending appends one component of that
\* footprint with rotation 0 and its first pin on the grid point nearest to
\* the pointer, selects it alone and clears the pending footprint, leaving
\* every other component and every trace as it was; a press with no
\* footprint pending adds no component.
Placement ==
    /\ [][(DownStep /\ pendingFootprintId # <<>>) =>
            LET m == Len(components')
            IN  /\ m = Len(components) + 1
                /\ SubSeq(components', 1, m - 1) = components
                /\ traces' = traces
                /\ components'[m].footprintId = pendingFootprintId[1]
                /\ components'[m].rotation = 0
                /\ Anchor(components'[m]) = snapVec(getScreenToWorld(pointer'[1]))
                /\ selectedIds' = {components'[m].id}
                /\ pendingFootprintId' = <<>>]_vars
    /\ [][(DownStep /\ pendingFootprintId = <<>>) =>
            components' = components /\ traces' = traces]_vars

\* A second component has just been placed beside a first one and a trace
PlacementWitness ==
    /\ last = <<"onPointerDown">>
    /\ pointer # <<>>
    /\ pendingFootprintId = <<>>
    /\ Len(components) = 2
    /\ Len(traces) = 1
    /\ selectedIds = {components[2].id}
    /\ components[2].footprintId = "pin"
    /\ Anchor(components[2]) = Vec(508, 508)

\* What the rotate button does to the components comps with sel selected
Turned(comps, sel) ==
    [i \in 1..Len(comps) |->
        IF comps[i].id \in sel
        THEN [comps[i] EXCEPT !.rotation = (comps[i].rotation + 90) % 360]
        ELSE comps[i]]

\* C18: every rotation is 0, 90, 180 or 270; the rotate button adds 90
\* modulo 360 to the rotation of each selected component and changes
\* nothing else; doing that four times gives the components back; and no
\* step that changes the rotation of a component changes its position.
RotationClosure ==
    /\ [](\A i \in 1..Len(components) : components[i].rotation \in {0, 90, 180, 270})
    /\ [][last' = <<"rotateSelected">> =>
            /\ components' = Turned(components, selectedIds)
            /\ UNCHANGED <<traces, selectedIds, tool, pendingFootprintId, viewport,
                           dragRef, routingPreview, marquee>>]_vars
    /\ [](Turned(Turned(Turned(Turned(components, selectedIds), selectedIds),
                        selectedIds), selectedIds) = components)
    /\ [][\A i \in 1..Len(components') : \A k \in 1..Len(components) :
            (/\ components[k].id = components'[i].id
             /\ components[k].rotation # components'[i].rotation)
            => components[k].position = components'[i].position]_vars

\* The rotate button has just turned two selected components, one of them
\* from 270 back to 0
RotationClosureWitness ==
    /\ last = <<"rotateSelected">>
    /\ Len(components) = 2
    /\ selectedIds = {components[1].id, components[2].id}
    /\ components[1].rotation = 0
    /\ components[2].rotation # 0

\* The ids of the components of known footprint whose box, from position to
\* position plus width and height, lies in the rectangle with corners a, b
Boxed(a, b) ==
    {components[i].id : i \in
        {k \in 1..Len(components) :
            \E n \in 1..Len(FOOTPRINTS) :
                LET f == FOOTPRINTS[n]
                    c == components[k]
                IN  /\ f.id = c.footprintId
                    /\ Least({a.x, b.x}) <= c.position.x
                    /\ c.position.x + f.width <= Greatest({a.x, b.x})
                    /\ Least({a.y, b.y}) <= c.position.y
                    /\ c.position.y + f.height <= Greatest({a.y, b.y})}}

---------------------------------------------------------------------------
(* Checks and editing                                                      *)

\* The component that a move gesture drags has its first pin on the grid
\* point nearest to where the pointer went, less the offset of the grab
MovesGrabbed ==
    LET off == IF dragRef[1].offset = <<>> THEN Vec(0, 0) ELSE dragRef[1].offset[1]
    IN  \A i \in 1..Len(components') :
            components'[i].id = dragRef[1].id =>
                Anchor(components'[i])
                    = snapVec(VecSub(getScreenToWorld(pointer'[1]), off))

\* C20: a run of the check, by the timer or by the button, leaves the
\* components, the traces, the selection, the gesture in progress and every
\* other part of the editor but its own results as they were. Whether the
\* library, rotate and delete buttons can be used depends on the pointer,
\* the pending footprint and the selection only, never on the result of a
\* check; and whatever that result is, a press with a footprint pending
\* places a component, a move gesture moves the component it holds, a route
\* released on another pin adds a trace, and the first far move of a press
\* on a trace splits it.
DrcAdvisory ==
    /\ [][PassStep => UNCHANGED <<components, traces, selectedIds, dragRef, tool,
                                  pendingFootprintId, viewport, routingPreview,
                                  marquee, pointer, now>>]_vars
    /\ [](\A f \in Library :
            (ENABLED SelectFootprint(f))
                <=> (pointer = <<>> /\ pendingFootprintId # <<f>>))
    /\ []((ENABLED RotateSelected) <=> (pointer = <<>> /\ selectedIds # {}))
    /\ []((ENABLED DeleteSelected) <=> (pointer = <<>> /\ selectedIds # {}))
    /\ [][/\ (DownStep /\ pendingFootprintId # <<>>)
                => Len(components') = Len(components) + 1
          /\ (MoveStep /\ ~PassStep /\ dragRef # <<>> /\ dragRef[1].type = "move")
                => MovesGrabbed
          /\ (UpStep /\ Routing /\ routingPreview # <<>> /\ Targets # {})
                => Len(traces') = Len(traces) + 1
          /\ (FirstFarMove /\ ~PassStep /\ ~gesture[1].shiftKey)
                => (Len(components') = Len(components) + 1
                    /\ Len(traces') = Len(traces) + 1)]_vars

\* The last check failed and left a marker, and the resistor has been
\* selected and rotated since, which started the timer of the next check
DrcAdvisoryWitness ==
    /\ lastCheckResult = "fail"
    /\ invalidTraceIds # {}
    /\ violationMarkers # <<>>
    /\ last = <<"rotateSelected">>
    /\ drcTimers > 0
    /\ \E i \in 1..Len(components) :
          /\ components[i].id \in selectedIds
          /\ components[i].footprintId = "resistor"
          /\ components[i].rotation = 90

---------------------------------------------------------------------------
(* Clicks on a trace                                                       *)

\* The gesture in progress began on a trace without the Shift key and has
\* not left the neighbourhood of its start
Clicking == dragRef # <<>> /\ dragRef[1].type = "potential_split"

\* The pointer stays within the split threshold of the start of the gesture
NearMove ==
    /\ MoveStep
    /\ Clicking
    /\ DistSq(getScreenToWorld(pointer'[1]), dragRef[1].startWorld)
          <= SplitThreshold * SplitThreshold

\* C21: a press on a trace without the Shift key selects that trace alone
\* and changes no component and no trace; as long as the pressed pointer
\* then stays within the threshold of where it was pressed, every move and
\* the release leave the components, the traces and that selection as they
\* are.
ClickSelect ==
    /\ [][(DownStep /\ gesture' # <<>> /\ ~gesture'[1].shiftKey) =>
            /\ selectedIds' = {gesture'[1].id}
            /\ \E i \in 1..Len(traces) : traces[i].id = gesture'[1].id
            /\ dragRef' # <<>>
            /\ dragRef'[1].type = "potential_split"
            /\ dragRef'[1].id = gesture'[1].id
            /\ dragRef'[1].startWorld = getScreenToWorld(pointer'[1])
            /\ UNCHANGED <<components, traces>>]_vars
    /\ [][NearMove => UNCHANGED <<components, traces, selectedIds, dragRef>>]_vars
    /\ [][(UpStep /\ Clicking)
            => UNCHANGED <<components, traces, selectedIds>> /\ dragRef' = <<>>]_vars
    /\ [](Clicking => selectedIds = {dragRef[1].id})

\* The pointer was pressed on the trace and has moved a little: the trace
\* is the selection and the board is as it was
ClickSelectWitness ==
    /\ Clicking
    /\ gesture # <<>>
    /\ ~gesture[1].shiftKey
    /\ gesture[1].splits = 0
    /\ getScreenToWorld(pointer[1]) # dragRef[1].startWorld
    /\ DistSq(getScreenToWorld(pointer[1]), dragRef[1].startWorld)
          <= SplitThreshold * SplitThreshold
    /\ selectedIds = {gesture[1].id}
    /\ Len(traces) = 1
    /\ Len(components) = 1

---------------------------------------------------------------------------
(* The check catches up                                                    *)

\* The results on display are those of a check of the board as it is
Fresh ==
    LET r == runDRC
    IN  /\ invalidTraceIds = r.invalid
        /\ violationMarkers = r.markers
        /\ lastCheckResult = r.status

\* C22: in every session in which the components and the traces change only
\* finitely often and the timers expire when they are due, there is a check
\* by the timer after the last change, and from some point on the invalid
\* set, the markers and the status are those of the board as it is.
CatchUp ==
    /\ (<>[][~Mutation]_vars) => <>[]Fresh
    /\ [](drcTimers > 0 ~> TimerPassed)
    /\ [][Mutation => drcTimers' > 0]_vars

\* A trace of a failing board has been deleted and the timer has run the
\* check since: one trace is left and the status is 'pass'
CatchUpWitness ==
    /\ JustChecked
    /\ Fresh
    /\ Len(traces) = 1
    /\ Len(components) = 4
    /\ lastCheckResult = "pass"
    /\ invalidTraceIds = {}
    /\ drcTimers = 0

---------------------------------------------------------------------------
(* Moves                                                                   *)

\* A move of the pressed pointer while a move gesture is in progress
MoveOfMove ==
    /\ MoveStep
    /\ flagTimers' = flagTimers
    /\ dragRef # <<>>
    /\ dragRef[1].type = "move"

\* C23: a move of the pointer in a move gesture leaves every trace, the
\* selection and the number and order of the components as they are, and
\* changes nothing of any component but the position of the one the drag
\* descriptor names.
MoveFrame ==
    [][MoveOfMove =>
        /\ traces' = traces
        /\ selectedIds' = selectedIds
        /\ Len(components') = Len(components)
        /\ \A i \in 1..Len(components) :
              IF components[i].id = dragRef[1].id
              THEN components'[i] =
                      [components[i] EXCEPT !.position = components'[i].position]
              ELSE components'[i] = components[i]]_vars

\* Two components are selected and the resistor, which is held, has been
\* moved from where it was; the pad rests where it was placed
MoveFrameWitness ==
    /\ dragRef # <<>>
    /\ dragRef[1].type = "move"
    /\ dragRef[1].hasMoved
    /\ Len(components) = 2
    /\ selectedIds = {components[1].id, components[2].id}
    /\ components[1].id = dragRef[1].id
    /\ components[1].footprintId = "resistor"
    /\ Anchor(components[1]) # Vec(0, 0)
    /\ Anchor(components[2]) = Vec(0, 0)

---------------------------------------------------------------------------
(* Control handles                                                         *)

Handling == dragRef # <<>> /\ dragRef[1].type = "handle"

\* The traces with the id of the drag descriptor
Held == {i \in 1..Len(traces) : traces[i].id = dragRef[1].id}

\* Where the held handle is put when the pointer goes to the world point w
HandleTarget(w) ==
    VecSub(w, IF dragRef[1].offset = <<>> THEN Vec(0, 0) ELSE dragRef[1].offset[1])

\* The trace t with the offset of handle k set to the point target taken
\* from the pin at that end; t itself when an end pin is not on the board
WithHandle(t, k, target) ==
    LET p1 == FindPin(t.fromPinId)
        p2 == FindPin(t.toPinId)
    IN  IF p1 = <<>> \/ p2 = <<>> THEN t
        ELSE IF k = 1
        THEN [id |-> t.id, fromPinId |-> t.fromPinId, toPinId |-> t.toPinId,
              width |-> t.width, color |-> t.color,
              c1Offset |-> <<Vec(target.x - p1[1].globalPos.x,
                                 target.y - p1[1].globalPos.y)>>,
              c2Offset |-> t.c2Offset]
        ELSE [id |-> t.id, fromPinId |-> t.fromPinId, toPinId |-> t.toPinId,
              width |-> t.width, color |-> t.color,
              c1Offset |-> t.c1Offset,
              c2Offset |-> <<Vec(target.x - p2[1].globalPos.x,
                                 target.y - p2[1].globalPos.y)>>]

\* C24: a press starts a handle gesture only within the handle radius of a
\* control handle of a trace that is selected and has both its end pins on
\* the board, and changes neither the board nor the selection; each move of
\* the pointer in the gesture changes no component and makes the held trace
\* the same trace with the offset of the held handle set to the pointer,
\* less the grab offset, less the position of the pin at that end (and
\* leaves it alone if it has an end pin that is not on the board).
HandleDrag ==
    /\ [][(DownStep /\ dragRef' # <<>> /\ dragRef'[1].type = "handle") =>
            LET d == dragRef'[1]
                world == getScreenToWorld(pointer'[1])
            IN  /\ d.id \in selectedIds
                /\ d.handleIdx \in {1, 2}
                /\ UNCHANGED <<components, traces, selectedIds>>
                /\ \E i \in 1..Len(traces) :
                      LET p1 == FindPin(traces[i].fromPinId)
                          p2 == FindPin(traces[i].toPinId)
                      IN  /\ traces[i].id = d.id
                          /\ p1 # <<>>
                          /\ p2 # <<>>
                          /\ LET ctrl == getBezierControlPoints(
                                            p1[1].globalPos, p2[1].globalPos, traces[i])
                                 c == IF d.handleIdx = 1 THEN ctrl.c1 ELSE ctrl.c2
                             IN  /\ DistSq(world, c) < HandleRadius * HandleRadius
                                 /\ d.offset = <<VecSub(world, c)>>]_vars
    /\ [][(MoveStep /\ flagTimers' = flagTimers /\ Handling) =>
            /\ components' = components
            /\ selectedIds' = selectedIds
            /\ dragRef' = dragRef
            /\ Len(traces') = Len(traces)
            /\ \A i \in Held :
                  traces'[i] = WithHandle(traces[i], dragRef[1].handleIdx,
                                          HandleTarget(getScreenToWorld(pointer'[1])))]_vars
    /\ [](Handling => Held # {} /\ dragRef[1].handleIdx \in {1, 2})

\* The handle at the junction end of a selected trace is held and has been
\* pulled ten units down from its default place
HandleDragWitness ==
    /\ Handling
    /\ dragRef[1].handleIdx = 2
    /\ \E i \in Held :
          /\ traces[i].id \in selectedIds
          /\ traces[i].toPinId = PinId(JunctionIdAt(3), "p1")
          /\ traces[i].c2Offset = <<Vec(-127, 100)>>
          /\ traces[i].c1Offset = NoOffset

---------------------------------------------------------------------------
(* Smooth joining                                                          *)

\* The pin at the end of the trace at position i whose handle is held
HeldPin(i) ==
    IF dragRef[1].handleIdx = 1 THEN traces[i].fromPinId ELSE traces[i].toPinId

\* The pin is a pin of a junction on the board
OnJunction(pid) ==
    \E c \in 1..Len(components) :
        IsJunction(components[c]) /\ pid \in PinIdsOf(components[c])

\* The positions of the traces other than the one at position i that end on
\* the pin
OthersAt(i, pid) ==
    {k \in 1..Len(traces) :
        /\ traces[k].id # traces[i].id
        /\ traces[k].fromPinId = pid \/ traces[k].toPinId = pid}

\* The offset of the held handle of the trace t
HeldOffset(t) == IF dragRef[1].handleIdx = 1 THEN t.c1Offset ELSE t.c2Offset

\* The trace t with its offset on the side of the pin set to the opposite of
\* the vector v
Mirrored(t, pid, v) ==
    IF t.fromPinId = pid
    THEN [id |-> t.id, fromPinId |-> t.fromPinId, toPinId |-> t.toPinId,
          width |-> t.width, color |-> t.color,
          c1Offset |-> <<Vec(0 - v.x, 0 - v.y)>>, c2Offset |-> t.c2Offset]
    ELSE [id |-> t.id, fromPinId |-> t.fromPinId, toPinId |-> t.toPinId,
          width |-> t.width, color |-> t.color,
          c1Offset |-> t.c1Offset, c2Offset |-> <<Vec(0 - v.x, 0 - v.y)>>]

\* C25: on every move of a handle gesture, if the end of the held trace at
\* the held handle is a pin of a junction and exactly one other trace ends
\* on that pin, that trace gets the opposite of the dragged offset on its
\* side of the junction; if no other trace or more than one other trace ends
\* on the pin, or the pin is not a junction's, no trace but the held one
\* changes.
SmoothJoining ==
    [][(MoveStep /\ Handling /\ Len(traces') = Len(traces)) =>
          \A i \in Held :
              LET pid == HeldPin(i)
                  others == OthersAt(i, pid)
              IN  IF OnJunction(pid) /\ Cardinality(others) = 1
                  THEN \A k \in others :
                          /\ HeldOffset(traces'[i]) # NoOffset
                          /\ traces'[k] =
                                Mirrored(traces[k], pid, HeldOffset(traces'[i])[1])
                  ELSE \A k \in 1..Len(traces) :
                          k \notin Held => traces'[k] = traces[k]]_vars

---------------------------------------------------------------------------
(* The markers of a check, one by one                                      *)

\* The 15 samples of the trace at position i of the list, in the order in
\* which the check takes them
SamplesOf(i) ==
    LET p1 == CHOOSE p \in Pads : p.id = traces[i].fromPinId
        p2 == CHOOSE p \in Pads : p.id = traces[i].toPinId
    IN  DrcPoints(p1.pos, p2.pos, traces[i])

\* The pair <<m, n>> comes no later than <<x, y>> when the first entries
\* are gone through one by one and the second entries for each of them
NoLater(mn, xy) == mn[1] < xy[1] \/ (mn[1] = xy[1] /\ mn[2] <= xy[2])

\* The midpoint of the first samples of the traces at i and j found closer
\* than the clearance, the samples of i gone through one by one and those
\* of j for each of them
FirstClose(i, j) ==
    LET a == SamplesOf(i)
        b == SamplesOf(j)
        close == {mn \in (0..DrcSamples) \X (0..DrcSamples) :
                     TooClose(a[mn[1]], b[mn[2]])}
        first == CHOOSE mn \in close : \A xy \in close : NoLater(mn, xy)
    IN  Midpoint(a[first[1]], b[first[2]])

\* The pairs of places in the list, the lower first, of two traces that
\* share no end pin and come closer than the clearance
ClashingPairs ==
    {<<ab[1].i, ab[2].i>> : ab \in {x \in Clashing(Sampled(Pads)) : x[1].i < x[2].i}}

\* The components with a pad that is no end of a trace and closer to it than
\* the clearance, each with the place of that trace in the list
PadCollisions ==
    {<<ap[2].comp, ap[1].i>> : ap \in PadClashing(Sampled(Pads), Pads)}

\* C26: after a check, the markers begin with one marker for each pair of
\* traces that share no end pin and come closer than the clearance, pair by
\* pair in list order and up to the cap: the midpoint of the first two
\* samples found close; every marker after those is a sample of a trace
\* close to a pad, so no pair of traces gives a second marker however many of
\* its samples are close.
OneMarkerPerPair ==
    [][PassStep =>
        LET pairs == ClashingPairs
            n == Cardinality(pairs)
            m == Len(violationMarkers')
        IN  /\ m >= (IF n < MarkerCap THEN n ELSE MarkerCap)
            /\ m <= n + Cardinality(PadCollisions)
            /\ \A p \in pairs :
                  LET r == Cardinality({q \in pairs : NoLater(q, p)})
                  IN  r <= MarkerCap => violationMarkers'[r] = FirstClose(p[1], p[2])
            /\ \A k \in (n + 1)..m :
                  \E ap \in PadClashing(Sampled(Pads), Pads) :
                      violationMarkers'[k] \in PadPoints(ap[1], ap[2])]_vars

\* A check has just given one marker for two traces that cross with more
\* than one pair of samples closer than the clearance
OneMarkerPerPairWitness ==
    /\ JustChecked
    /\ Len(traces) = 2
    /\ ClashingPairs = {<<1, 2>>}
    /\ PadCollisions = {}
    /\ \E ab \in Clashing(Sampled(Pads)) :
          Cardinality(ClosePairs(ab[1].pts, ab[2].pts)) > 1
    /\ violationMarkers = <<FirstClose(1, 2)>>

\* The places in the footprint of the component at position c of the pads
\* that are no end of the trace at position i and closer than the clearance
\* to one of its samples
ClosePads(c, i) ==
    LET pins == PinsOf(components[c])
        pts == SamplesOf(i)
    IN  {k \in 1..Len(pins) :
            /\ pins[k].id # traces[i].fromPinId
            /\ pins[k].id # traces[i].toPinId
            /\ \E m \in 0..DrcSamples : TooClose(pts[m], pins[k].globalPos)}

\* The places <<c, i>> of a component and of a trace with both ends on the
\* board such that a pad of the component collides with the trace
PadCollisionsAt ==
    {ci \in (1..Len(components)) \X {a.i : a \in Sampled(Pads)} :
        ClosePads(ci[1], ci[2]) # {}}

\* The first sample of the trace at i that is close to the first pad of the
\* component at c that collides with it
FirstPadSample(c, i) ==
    LET pts == SamplesOf(i)
        pad == PinsOf(components[c])[Least(ClosePads(c, i))].globalPos
    IN  pts[Least({m \in 0..DrcSamples : TooClose(pts[m], pad)})]

\* C27 as stated: after a check, every trace with both ends on the board
\* that has a sample closer than the clearance to a pad that is no end of it
\* is invalid, and there is one marker for each such pair of a trace and a
\* pad, up to the cap, after the markers of the pairs of traces: two pads of
\* one component that collide with a trace give two markers.
PadCheckPerPad ==
    [][PassStep =>
        LET padClash == PadClashing(Sampled(Pads), Pads)
        IN  /\ \A ap \in padClash : traces[ap[1].i].id \in invalidTraceIds'
            /\ Len(violationMarkers') =
                  Min(MarkerCap, Cardinality(ClashingPairs) + Cardinality(padClash))]_vars

\* C27: after a check, every trace with both ends on the board that has a
\* sample closer than the clearance to a pad that is no end of it is
\* invalid, and after the markers of the pairs of traces there is, up to the
\* cap, one marker for each pair of a component and a trace that collide,
\* component by component and trace by trace in list order: the first sample
\* of the trace that is close to the first colliding pad of the component.
\* Two pads of one component that collide with a trace give one marker.
PadCheck ==
    [][PassStep =>
        LET n == Cardinality(ClashingPairs)
            hits == PadCollisionsAt
        IN  /\ \A ap \in PadClashing(Sampled(Pads), Pads) :
                  traces[ap[1].i].id \in invalidTraceIds'
            /\ Len(violationMarkers') = Min(MarkerCap, n + Cardinality(hits))
            /\ \A h \in hits :
                  LET r == n + Cardinality({q \in hits : NoLater(q, h)})
                  IN  r <= MarkerCap =>
                          violationMarkers'[r] = FirstPadSample(h[1], h[2])]_vars

\* A check has just found a trace on both pads of a resistor and given one
\* marker for it
PadCheckWitness ==
    /\ JustChecked
    /\ Len(traces) = 1
    /\ \E c \in 1..Len(components) :
          /\ components[c].footprintId = "resistor"
          /\ ClosePads(c, 1) = {1, 2}
          /\ PadCollisionsAt = {<<c, 1>>}
          /\ violationMarkers = <<FirstPadSample(c, 1)>>
    /\ invalidTraceIds = {traces[1].id}

\* C28: after a check the invalid set is the set of the traces in violation
\* on the board as it is (those with both ends on the board that come closer
\* than the clearance to a trace sharing no end pin with them or to a pad
\* that is no end of theirs), and the markers are as many as the violations
\* on that board, up to the cap, each the midpoint of two close samples or a
\* sample close to a pad of that board, whatever the results were before: a
\* trace that was invalid and is no longer in violation, or is no longer on
\* the board, is not invalid after the check.
FullReplacement ==
    [][PassStep =>
        LET S == Sampled(Pads)
            clash == Clashing(S)
            padClash == PadClashing(S, Pads)
            bad == {traces[ab[1].i].id : ab \in clash}
                   \cup {traces[ap[1].i].id : ap \in padClash}
            count == Cardinality({ab \in clash : ab[1].i < ab[2].i})
                     + Cardinality({<<ap[2].comp, ap[1].i>> : ap \in padClash})
            allowed == MarkersOf(clash, padClash)
        IN  /\ invalidTraceIds' = bad
            /\ \A id \in invalidTraceIds : id \notin bad => id \notin invalidTraceIds'
            /\ Len(violationMarkers') = Min(MarkerCap, count)
            /\ \A k \in 1..Len(violationMarkers') :
                  violationMarkers'[k] \in allowed]_vars

\* A check has just cleared a trace that the check before had found invalid
\* and that is still on the board, and another that has been deleted since
FullReplacementWitness ==
    /\ JustChecked
    /\ \E i \in 1..Len(traces) :
          traces[i].id \in last[2].cleared /\ traces[i].id \notin invalidTraceIds
    /\ \E id \in last[2].cleared : \A i \in 1..Len(traces) : traces[i].id # id
    /\ invalidTraceIds = {}
    /\ violationMarkers = <<>>

---------------------------------------------------------------------------
(* Traces and components that the check passes over                        *)

\* The footprint of the component is in the library
Known(comp) == \E f \in 1..Len(FOOTPRINTS) : FOOTPRINTS[f].id = comp.footprintId

\* The pin id is that of a pin of the footprint of a component on the board
Resolves(pid) ==
    \E c \in 1..Len(components), f \in 1..Len(FOOTPRINTS) :
        /\ FOOTPRINTS[f].id = components[c].footprintId
        /\ \E k \in 1..Len(FOOTPRINTS[f].pins) :
              pid = PinId(components[c].id, FOOTPRINTS[f].pins[k].id)

\* The places in the list of the traces with an end that does not resolve
Dangling ==
    {i \in 1..Len(traces) :
        ~Resolves(traces[i].fromPinId) \/ ~Resolves(traces[i].toPinId)}

\* C29: no pin belongs to a component whose footprint is not in the
\* library; a check never makes a trace invalid that has an end that does
\* not resolve, and gives no marker for it nor for a component without a
\* known footprint: the check runs to its end, and its results are those for
\* the other traces and components, the traces in violation among them
\* invalid, with one marker for each violation among them up to the cap, and
\* the status 'fail' if any is invalid and 'pass' if not, while there is a
\* trace.
DefensiveSkip ==
    /\ [](\A k \in 1..Len(allPins) :
              \E c \in 1..Len(components) :
                  components[c].id = allPins[k].componentId /\ Known(components[c]))
    /\ [][PassStep =>
            LET rest == {i \in 1..Len(traces) : i \notin Dangling}
                S == {a \in Sampled(Pads) : a.i \in rest}
                pads == {p \in Pads : \E c \in 1..Len(components) :
                                         components[c].id = p.comp /\ Known(components[c])}
                clash == Clashing(S)
                padClash == PadClashing(S, pads)
                count == Cardinality({ab \in clash : ab[1].i < ab[2].i})
                         + Cardinality({<<ap[2].comp, ap[1].i>> : ap \in padClash})
                allowed == MarkersOf(clash, padClash)
            IN  /\ \A i \in Dangling : traces[i].id \notin invalidTraceIds'
                /\ {a.i : a \in S} = rest
                /\ invalidTraceIds' = {traces[ab[1].i].id : ab \in clash}
                                      \cup {traces[ap[1].i].id : ap \in padClash}
                /\ Len(violationMarkers') = Min(MarkerCap, count)
                /\ \A k \in 1..Len(violationMarkers') : violationMarkers'[k] \in allowed
                /\ isDrcRunning'
                /\ lastCheckResult' = IF invalidTraceIds' # {} THEN "fail"
                                      ELSE IF Len(traces) > 0 THEN "pass" ELSE "none"]_vars

\* A check has just run on a board with a trace to a pin that is not on the
\* board, a trace to a pin of a component without a known footprint, and two
\* more traces: these two are invalid and the first two are not
DefensiveSkipWitness ==
    /\ JustChecked
    /\ Len(traces) = 4
    /\ \E c \in 1..Len(components) : ~Known(components[c])
    /\ \E i, j \in Dangling :
          /\ Resolves(traces[i].fromPinId)
          /\ \A c \in 1..Len(components) : OwnerOf(traces[i].toPinId) # components[c].id
          /\ \E c \in 1..Len(components) :
                /\ ~Known(components[c])
                /\ traces[j].fromPinId = PinId(components[c].id, "p1")
    /\ invalidTraceIds = {traces[i].id : i \in {k \in 1..Len(traces) : k \notin Dangling}}
    /\ Cardinality(invalidTraceIds) = 2
    /\ violationMarkers # <<>>
    /\ lastCheckResult = "fail"

---------------------------------------------------------------------------
(* Traces under a marquee                                                  *)

\* The point p lies in the rectangle with corners a and b
InRectangle(p, a, b) ==
    /\ Least({a.x, b.x}) <= p.x /\ p.x <= Greatest({a.x, b.x})
    /\ Least({a.y, b.y}) <= p.y /\ p.y <= Greatest({a.y, b.y})

\* C30: after every move of a marquee gesture a trace is selected if and
\* only if the pin it starts from is on the board and lies in the rectangle
\* between the point of the press and the pointer, wherever its other end
\* is.
MarqueeTraces ==
    [][(MoveStep /\ dragRef # <<>> /\ dragRef[1].type = "marquee") =>
          \A i \in 1..Len(traces) :
              traces[i].id \in selectedIds'
                  <=> \E p \in Pads :
                         /\ p.id = traces[i].fromPinId
                         /\ InRectangle(p.pos, dragRef[1].startWorld,
                                        getScreenToWorld(pointer'[1]))]_vars

---------------------------------------------------------------------------
(* The running flag                                                        *)

---------------------------------------------------------------------------
(* Identifiers                                                             *)

\* No two entries of seq have the same id
DistinctIds(seq) ==
    \A i, j \in 1..Len(seq) : seq[i].id = seq[j].id => i = j

UniqueIdsMergeWitness ==
    /\ \E i \in 1..Len(traces) : StartsWith(traces[i].id, <<"trace", "merged">>)
    /\ Len(components) >= 1
    /\ now >= 5

---------------------------------------------------------------------------
(* The gesture after a drag-split                                          *)

\* The gesture in progress has split the trace it was pressed on
AfterSplit == gesture # <<>> /\ gesture[1].splits = 1 /\ lastSplit # <<>>

\* The components with the given id, by their places in the list
Named(comps, id) == {i \in 1..Len(comps) : comps[i].id = id}

\* C33: the move that splits a trace leaves the new junction, and nothing
\* else, selected and leaves a move of that junction in progress; every
\* later move of the same gesture puts the pin of that junction on the grid
\* point nearest to the pointer.
SplitThenMove ==
    /\ [][(FirstFarMove /\ ~gesture[1].shiftKey) =>
            LET junction == components'[Len(components')]
            IN  /\ selectedIds' = {junction.id}
                /\ dragRef' # NoDrag
                /\ dragRef'[1].type = "move"
                /\ dragRef'[1].id = junction.id]_vars
    /\ [][(MoveStep /\ AfterSplit) =>
            \E i \in Named(components', lastSplit[1].junction) :
                Nearest(getScreenToWorld(pointer'[1]),
                        PinsOf(components'[i])[1].globalPos)]_vars

---------------------------------------------------------------------------
(* The selection                                                           *)

\* The ids of the components and the traces on the board
BoardIds ==
    {components[i].id : i \in 1..Len(components)}
        \cup {traces[i].id : i \in 1..Len(traces)}

\* C34: every id in the selection is the id of a component or of a trace
\* that is on the board.
SelectionValid == selectedIds \subseteq BoardIds

---------------------------------------------------------------------------
(* The gesture a press begins                                              *)

\* The selected traces with both ends on the board that have a control
\* handle within reach of w, each with that handle
HandlesAt(w) ==
    {ik \in (1..Len(traces)) \X {1, 2} :
        LET t == traces[ik[1]]
        IN  /\ t.id \in selectedIds
            /\ \E p1, p2 \in Pads :
                  /\ p1.id = t.fromPinId
                  /\ p2.id = t.toPinId
                  /\ LET ctrl == getBezierControlPoints(p1.pos, p2.pos, t)
                     IN  checkCollision(w, IF ik[2] = 1 THEN ctrl.c1 ELSE ctrl.c2,
                                        HandleRadius)}

\* The pads within the hit radius of w
PinsAt(w) == {p \in Pads : checkCollision(p.pos, w, PinDownRadius)}

\* The traces within the hit radius of w, by their places in the list
TracesAt(w) == {i \in 1..Len(traces) : TraceHit(traces[i], w, TraceDownRadius)}

\* The components whose unrotated box holds w, by their places in the list
BodiesAt(w) ==
    {i \in 1..Len(components) :
        \E k \in 1..Len(FOOTPRINTS) :
            /\ FOOTPRINTS[k].id = components[i].footprintId
            /\ components[i].position.x <= w.x
            /\ w.x <= components[i].position.x + FOOTPRINTS[k].width
            /\ components[i].position.y <= w.y
            /\ w.y <= components[i].position.y + FOOTPRINTS[k].height}

\* The press leaves a gesture of the given type in progress
Begins(type) == dragRef' # NoDrag /\ dragRef'[1].type = type

\* C35: a press begins the gesture of the first of these that applies: a
\* footprint is pending (the component is placed and moves); the pan tool
\* or the middle button (pan); a control handle of a selected trace is
\* within reach (handle); a pin is (a move of its junction, or else a
\* route from it); a trace is (the trace is selected and may be split, or
\* with the Shift key its selection is toggled and no gesture begins); a
\* component holds the point (move); and a marquee otherwise.
PressPriority ==
    [][DownStep =>
        LET w == getScreenToWorld(pointer'[1])
        IN  IF pendingFootprintId # <<>>
            THEN /\ Len(components') = Len(components) + 1
                 /\ Begins("move")
                 /\ dragRef'[1].id = components'[Len(components')].id
                 /\ components'[Len(components')].footprintId = pendingFootprintId[1]
                 /\ pendingFootprintId' = <<>>
            ELSE /\ last'[1] = "press"
                 /\ UNCHANGED <<components, traces, pendingFootprintId>>
                 /\ IF tool = "pan" \/ last'[2].button = 1
                    THEN Begins("pan") /\ selectedIds' = selectedIds
                    ELSE IF HandlesAt(w) # {}
                    THEN /\ Begins("handle")
                         /\ \E ik \in HandlesAt(w) :
                               /\ dragRef'[1].id = traces[ik[1]].id
                               /\ dragRef'[1].handleIdx = ik[2]
                         /\ selectedIds' = selectedIds
                    ELSE IF PinsAt(w) # {}
                    THEN \E p \in PinsAt(w) :
                            IF \E i \in 1..Len(components) :
                                  components[i].id = p.comp /\ IsJunction(components[i])
                            THEN /\ Begins("move")
                                 /\ dragRef'[1].id = p.comp
                                 /\ selectedIds' = {p.comp}
                            ELSE /\ Begins("route")
                                 /\ dragRef'[1].id = p.id
                                 /\ selectedIds' = selectedIds
                    ELSE IF TracesAt(w) # {}
                    THEN \E i \in TracesAt(w) :
                            IF last'[2].shiftKey
                            THEN /\ dragRef' = dragRef
                                 /\ selectedIds' = Toggle(selectedIds, traces[i].id)
                            ELSE /\ Begins("potential_split")
                                 /\ dragRef'[1].id = traces[i].id
                                 /\ selectedIds' = {traces[i].id}
                    ELSE IF BodiesAt(w) # {}
                    THEN /\ Begins("move")
                         /\ \E i \in BodiesAt(w) : dragRef'[1].id = components[i].id
                    ELSE Begins("marquee")]_vars

\* A press within reach of a handle of a selected trace, of that trace and
\* of the body of the resistor has just taken the handle
PressPriorityWitness ==
    /\ pointer # <<>>
    /\ last # <<>>
    /\ last[1] = "press"
    /\ tool = "select"
    /\ last[2].button = 0
    /\ dragRef # NoDrag
    /\ dragRef[1].type = "handle"
    /\ HandlesAt(getScreenToWorld(pointer[1])) # {}
    /\ PinsAt(getScreenToWorld(pointer[1])) = {}
    /\ TracesAt(getScreenToWorld(pointer[1])) # {}
    /\ BodiesAt(getScreenToWorld(pointer[1])) # {}

---------------------------------------------------------------------------
(* Junction pins                                                           *)

\* The pins of the junctions of the board
JunctionPins == {p \in Pads : \E i \in 1..Len(components) :
                    components[i].id = p.comp /\ IsJunction(components[i])}

\* The first pin within the hit radius of w, in the order of the components
\* and of their pins: <<>> or <<pin>>
FirstPinAt(w) ==
    LET hit == {k \in 1..Len(allPins) :
                   checkCollision(allPins[k].globalPos, w, PinDownRadius)}
    IN  IF hit = {} THEN <<>> ELSE <<allPins[Least(hit)]>>

\* A move of a junction is in progress
MovingJunction ==
    /\ dragRef # NoDrag
    /\ dragRef[1].type = "move"
    /\ \E p \in JunctionPins : p.comp = dragRef[1].id

\* No route gesture starts from the pin of a junction, and no step of a
\* move of a junction changes the traces
NoRouteFromJunction ==
    /\ [](Routing => \A p \in JunctionPins : p.id # dragRef[1].id)
    /\ [][MovingJunction => traces' = traces]_vars

\* C36 as stated: every press within the hit radius of the pin of a junction
\* begins a move of that junction; no route gesture starts from the pin of
\* a junction; and no step of a move of a junction changes the traces.
JunctionPressAlwaysMoves ==
    /\ [][DownStep =>
            \A p \in JunctionPins :
                checkCollision(p.pos, getScreenToWorld(pointer'[1]), PinDownRadius)
                    => /\ Begins("move")
                       /\ dragRef'[1].id = p.comp]_vars
    /\ NoRouteFromJunction

\* C36: a press with the select tool and the left button, with no footprint
\* pending and no control handle of a selected trace within reach, for which
\* the first pin within the hit radius is the pin of a junction, selects
\* that junction and begins a move of it; no route gesture starts from the
\* pin of a junction; and no step of a move of a junction changes the
\* traces.
JunctionPressMoves ==
    /\ [][(/\ DownStep
           /\ pendingFootprintId = <<>>
           /\ tool = "select"
           /\ last'[2].button = 0
           /\ HandlesAt(getScreenToWorld(pointer'[1])) = {}
           /\ FirstPinAt(getScreenToWorld(pointer'[1])) # <<>>
           /\ \E p \in JunctionPins :
                 p.id = FirstPinAt(getScreenToWorld(pointer'[1]))[1].id)
            => /\ Begins("move")
               /\ dragRef'[1].id = FirstPinAt(getScreenToWorld(pointer'[1]))[1].componentId
               /\ selectedIds' = {dragRef'[1].id}
               /\ UNCHANGED <<components, traces>>]_vars
    /\ NoRouteFromJunction

\* A junction with two traces on its pin, pressed on that pin, has been
\* moved by the pointer
JunctionPressWitness ==
    /\ pointer # <<>>
    /\ MovingJunction
    /\ dragRef[1].hasMoved
    /\ selectedIds = {dragRef[1].id}
    /\ Len(traces) = 2
    /\ \E p \in JunctionPins :
          /\ p.comp = dragRef[1].id
          /\ \A i \in 1..Len(traces) : p.id \in {traces[i].fromPinId, traces[i].toPinId}

---------------------------------------------------------------------------
(* The status and the invalid set                                          *)

\* C37: the status is 'fail' exactly when the invalid set is not empty.
StatusConsistent == (lastCheckResult = "fail") <=> (invalidTraceIds # {})

\* The status is 'fail' and the invalid set holds two ids although the
\* traces they named have been deleted since the check
StatusConsistentWitness ==
    /\ lastCheckResult = "fail"
    /\ Cardinality(invalidTraceIds) = 2
    /\ traces = <<>>
    /\ drcTimers = 1

---------------------------------------------------------------------------
(* Stale ids in the invalid set                                            *)

\* The ids of the invalid set that name no trace of the trace list with both
\* of its ends resolvable
StaleInvalidIds ==
    {id \in invalidTraceIds :
        ~\E k \in 1..Len(traces) :
            /\ traces[k].id = id
            /\ FindPin(traces[k].fromPinId) # <<>>
            /\ FindPin(traces[k].toPinId) # <<>>}

\* C38: when no timer of the automatic check is pending, every id of the
\* invalid set is the id of a trace of the trace list with both ends
\* resolvable; stale ids occur only while a timer is pending.
NoStaleAtQuiescence == drcTimers = 0 => StaleInvalidIds = {}

\* No timer is pending after a check that has just dropped the id of a trace
\* that is no longer on the board, and flagged traces that are
NoStaleAtQuiescenceWitness ==
    /\ drcTimers = 0
    /\ invalidTraceIds # {}
    /\ last # <<>>
    /\ last[1] = "runDRC"
    /\ \E id \in last[2].cleared : \A k \in 1..Len(traces) : traces[k].id # id

---------------------------------------------------------------------------
(* The pan gesture and the idle pointer                                    *)

\* The gesture in progress is a pan
Panning == dragRef # NoDrag /\ dragRef[1].type = "pan"

\* C39: the press that begins a pan and every step of the pan gesture leave
\* the components, the traces, the selection and the scale of the view as
\* they are; a move of the pointer with no drag and no footprint pending
\* changes nothing.
PanAndIdleFrame ==
    [][/\ (Panning \/ Panning') =>
              /\ UNCHANGED <<components, traces, selectedIds, tool,
                             pendingFootprintId, routingPreview, marquee,
                             invalidTraceIds, violationMarkers, lastCheckResult>>
              /\ viewport'.scale = viewport.scale
       /\ (last' = <<"hover">> /\ dragRef = NoDrag /\ pendingFootprintId = <<>>) =>
              UNCHANGED <<components, traces, selectedIds, tool, pendingFootprintId,
                          viewport, dragRef, routingPreview, marquee,
                          invalidTraceIds, violationMarkers, isDrcRunning,
                          lastCheckResult, drcTimers, flagTimers, now, pointer>>]_vars

\* The pointer has just moved with no button held over a board whose view a
\* pan has moved both ways while a trace was selected
PanWitness ==
    /\ last = <<"hover">>
    /\ dragRef = NoDrag
    /\ pendingFootprintId = <<>>
    /\ viewport.x # 0
    /\ viewport.y # 0
    /\ viewport.scale = InitialScale
    /\ \E i \in 1..Len(traces) : traces[i].id \in selectedIds

====
